---- MODULE Spec2Model ----
(***************************************************************************)
(* Block validator pipeline of staker/block_validator.go: the creator,     *)
(* recorder and validator loops, the record and validation tasks they      *)
(* launch, Reorg and the fatal-error policy.                               *)
(*                                                                         *)
(* A global state is [BlockHash, Batch, PosInBatch]; the block hash of the *)
(* result at message count c is c itself (SendRoot always travels with     *)
(* BlockHash, both come from the same ResultAtCount answer).  The inbox    *)
(* tracker's batch layout is batch 0 = genesis message, every later batch  *)
(* holding batchSize messages; the layout can be re-posted.                *)
(***************************************************************************)
EXTENDS Integers, Sequences, FiniteSets, TLC

\* ---- bounds ----
MaxMsg == 3             \* streamer's processed message count
MaxBatchSize == 2       \* messages per batch is in 1..MaxBatchSize
MaxRoom == 2            \* a spawner's Room() is in -MaxRoom..MaxRoom
MaxHash == 3            \* wasm module roots are 0..MaxHash, 0 the zero hash
MaxStartIndex == 1      \* machineStartIndex is in 0..MaxStartIndex
MaxStepSize == 2        \* stepSize is in 0..MaxStepSize
MaxLeaves == 4          \* numDesiredLeaves is in 0..MaxLeaves
MaxHalt == 4            \* a machine halts after 0..MaxHalt steps
MaxCaches == 3          \* machine caches one execution run creates
MaxTime == 4           \* block timestamps are in 0..MaxTime
MaxBlock == 4          \* block numbers are in 0..MaxBlock
MaxPeriod == 2         \* CheckpointPeriod is in 1..MaxPeriod
MaxCapacity == 2       \* the configured CheckpointCache is in 0..MaxCapacity
MaxRoots == 2           \* state roots of one Put, and the heights a Get reads up to

\* ---- configuration (BlockValidatorConfig) ----
ForwardBlocks == 0      \* the smaller of the two ForwardBlocks settings checked
PrerecordedBlocks == 1  \* the smaller of the two PrerecordedBlocks settings checked
NumRoots == 2           \* current and pending wasm module root
FatalChanCap == 1       \* depth of the fatal channel

Positions == 1..MaxMsg
NoEntry == [Status |-> "None"]
NoPromise == [state |-> "nil", val |-> 0]
NoReorg == [pos |-> 0, cause |-> "none"]

VARIABLES
    started, processed,
    chainCaughtUp, stopped, failureIsFatal,
    forwardBlocks, prerecordedBlocks,
    batchSize, dbFaulty,
    nextCreateBatchMsgCount, nextCreateBatchReread, nextCreateStartGS,
    prepared, nextRecordPrepared,
    lastValidGS, valLoopPos, room, valPc, reorgReq,
    createdA, recordSentA, validatedA, validations,
    fatalErr, db,
    epochStart,
    currentWasmModuleRoot, pendingWasmModuleRoot, currentModuleRoot,
    latestWasmModuleRoot, moduleErr,
    machineStartIndex, stepSize, numDesiredLeaves, machine, leaves,
    caches, cache, closeOnce, runStopped, stepResult, proof,
    batchCount, smCall, historyCache,
    search, engine, retryables, syncHelper, reorgMutex, markValid

createVars == <<nextCreateBatchMsgCount, nextCreateBatchReread, nextCreateStartGS>>
recordVars == <<prepared, nextRecordPrepared>>
valLoopVars == <<valLoopPos, room, valPc, reorgReq>>
cursorVars == <<createdA, recordSentA, validatedA>>
configVars == <<failureIsFatal, forwardBlocks, prerecordedBlocks, dbFaulty>>
moduleVars == <<currentWasmModuleRoot, pendingWasmModuleRoot, currentModuleRoot,
                latestWasmModuleRoot, moduleErr>>
leafVars == <<machineStartIndex, stepSize, numDesiredLeaves, machine, leaves>>
runVars == <<caches, cache, closeOnce, runStopped, stepResult, proof>>
auxVars == <<search, engine, retryables, syncHelper, reorgMutex, markValid>>
chainVars == <<batchCount, smCall, historyCache, auxVars>>
envVars == <<started, processed, stopped, configVars, moduleVars, leafVars, runVars, chainVars, batchSize>>
ghostVars == <<epochStart>>

vars == <<started, processed, chainCaughtUp, stopped, failureIsFatal,
          forwardBlocks, prerecordedBlocks, batchSize, dbFaulty,
          nextCreateBatchMsgCount, nextCreateBatchReread, nextCreateStartGS,
          prepared, nextRecordPrepared,
          lastValidGS, valLoopPos, room, valPc, reorgReq,
          createdA, recordSentA, validatedA, validations,
          fatalErr, db,
          epochStart,
          currentWasmModuleRoot, pendingWasmModuleRoot, currentModuleRoot,
          latestWasmModuleRoot, moduleErr,
          machineStartIndex, stepSize, numDesiredLeaves, machine, leaves,
          caches, cache, closeOnce, runStopped, stepResult, proof,
          batchCount, smCall, historyCache,
          search, engine, retryables, syncHelper, reorgMutex, markValid>>

\* ---- global states and the collaborators ----
GS(h, b, p) == [BlockHash |-> h, Batch |-> b, PosInBatch |-> p]

ZeroGS == GS(0, 0, 0)

\* streamer.GetProcessedMessageCount
StreamerMsgCount == processed

\* inboxTracker.GetBatchCount
BatchCount == batchCount

\* streamer.ResultAtCount(count).BlockHash
ResultAtCount(count) == count

\* inboxTracker.GetBatchMessageCount(batch) under the current layout
BatchMessageCount(batch) == IF batch = 0 THEN 1 ELSE 1 + batch * batchSize

\* StatelessBlockValidator.GlobalStatePositionsAtCount(count): end position
GlobalStatePositionsAtCount(count) ==
    [BatchNumber |-> ((count - 1) \div batchSize) + 1,
     PosInBatch  |-> (count - 1) % batchSize]

buildGlobalState(res, pos) == GS(res, pos.BatchNumber, pos.PosInBatch)

\* ---- atomic cursors ----
created == createdA
recordSent == recordSentA
validated == validatedA

\* db.Put succeeds (TRUE) or fails (FALSE)
DbOutcomes == IF dbFaulty THEN BOOLEAN ELSE {TRUE}

\* ---- possiblyFatal: the channel after the call ----
possiblyFatal_IgnoreStopped(ch, err) ==
    IF failureIsFatal /\ Len(ch) < FatalChanCap THEN Append(ch, err) ELSE ch

possiblyFatal(ch, err) ==
    IF stopped THEN ch
    ELSE IF failureIsFatal /\ Len(ch) < FatalChanCap THEN Append(ch, err)
    ELSE ch

\* ---- writeLastValidatedToDb: the store after the call ----
writeLastValidatedToDb_Dropped(gs, wasmRoots, dbOk) == db

writeLastValidatedToDb(gs, wasmRoots, dbOk) ==
    IF dbOk THEN [GlobalState |-> gs, WasmRoots |-> wasmRoots] ELSE db

\* the worker state after NewBlockValidator
InitWorkers ==
    /\ chainCaughtUp = FALSE
    /\ stopped = FALSE
    /\ nextCreateBatchMsgCount = 0
    /\ nextCreateBatchReread = FALSE
    /\ nextCreateStartGS = ZeroGS
    /\ prepared = 0
    /\ nextRecordPrepared = NoPromise
    /\ valLoopPos = 0
    /\ room = 0
    /\ valPc = "idle"
    /\ reorgReq = NoReorg
    /\ createdA = 0
    /\ recordSentA = 0
    /\ validatedA = 0
    /\ validations = [p \in Positions |-> NoEntry]
    /\ fatalErr = <<>>
    /\ db = [GlobalState |-> ZeroGS, WasmRoots |-> {}]
    /\ epochStart = 0

\* the state after NewBlockValidator and Start on a fresh node whose streamer has
\* processed all MaxMsg messages (the configuration aside)
InitPipeline ==
    /\ InitWorkers
    /\ started = TRUE
    /\ processed = MaxMsg
    /\ lastValidGS = GS(ResultAtCount(1), 1, 0)

\* GlobalStateToMsgCount(tracker, streamer, gs): <<caughtUp, count>>
GlobalStateToMsgCount_NoWait(gs) ==
    LET prevBatchMsgCount == IF gs.Batch > 0 THEN BatchMessageCount(gs.Batch - 1) ELSE 0
        count == prevBatchMsgCount + gs.PosInBatch
    IN  <<TRUE, count>>

GlobalStateToMsgCount(gs) ==
    LET prevBatchMsgCount == IF gs.Batch > 0 THEN BatchMessageCount(gs.Batch - 1) ELSE 0
        count == prevBatchMsgCount + gs.PosInBatch
    IN  IF BatchCount <= gs.Batch THEN <<FALSE, 0>>
        ELSE IF gs.PosInBatch > 0 /\ BatchMessageCount(gs.Batch) < count THEN <<FALSE, 0>>
        ELSE IF StreamerMsgCount < count THEN <<FALSE, 0>>
        ELSE IF ResultAtCount(count) # gs.BlockHash THEN <<FALSE, 0>>
        ELSE <<TRUE, count>>

checkValidatedGSCaughUp ==
    /\ started /\ ~stopped
    /\ ~chainCaughtUp
    /\ lastValidGS.Batch # 0
    /\ LET r == GlobalStateToMsgCount(lastValidGS)
       IN  /\ r[1]
           /\ nextCreateBatchReread' = TRUE
           /\ nextCreateStartGS' = lastValidGS
           /\ createdA' = r[2]
           /\ recordSentA' = r[2]
           /\ validatedA' = r[2]
           /\ epochStart' = r[2]
    /\ chainCaughtUp' = TRUE
    /\ UNCHANGED <<envVars, nextCreateBatchMsgCount, recordVars, lastValidGS,
                   valLoopVars, validations, fatalErr, db>>

\* ---- before Start ----
\* the error AssumeValid returns ("nil" for none)
AssumeValidErr == IF started THEN "cannot handle AssumeValid while running" ELSE "nil"

\* lastValidGS after AssumeValid(globalState)
assumedGS_Last(globalState) == IF started THEN lastValidGS ELSE globalState

assumedGS(globalState) ==
    IF started THEN lastValidGS
    ELSE IF lastValidGS.Batch > globalState.Batch THEN lastValidGS
    ELSE IF lastValidGS.Batch = globalState.Batch
            /\ lastValidGS.PosInBatch > globalState.PosInBatch THEN lastValidGS
    ELSE globalState

startFrame == <<processed, chainCaughtUp, stopped, configVars, moduleVars, leafVars, runVars, chainVars,
                batchSize, createVars,
                recordVars, valLoopVars, cursorVars, validations, fatalErr, db, ghostVars>>

AssumeValid(globalState) ==
    /\ lastValidGS' = assumedGS(globalState)
    /\ UNCHANGED <<started, startFrame>>

\* the global states handed to AssumeValid
AssumeInputs ==
    { GS(h, b, p) : h \in 1..MaxMsg, b \in 0..MaxMsg, p \in 0..(MaxBatchSize - 1) }

AssumeValidCall == \E globalState \in AssumeInputs : AssumeValid(globalState)

Start ==
    /\ ~started
    /\ started' = TRUE
    /\ lastValidGS' = IF lastValidGS.Batch = 0 THEN GS(ResultAtCount(1), 1, 0)
                      ELSE lastValidGS
    /\ UNCHANGED startFrame

\* the streamer processes one more message
streamerAdvance ==
    /\ ~stopped
    /\ processed < MaxMsg
    /\ processed' = processed + 1
    /\ UNCHANGED <<started, chainCaughtUp, stopped, configVars, moduleVars, leafVars, runVars, chainVars,
                   batchSize, createVars,
                   recordVars, lastValidGS, valLoopVars, cursorVars, validations,
                   fatalErr, db, ghostVars>>

\* ---- creator loop ----
\* the look-ahead check of createNextValidationEntry
createAllowed_NoWindow(pos) == TRUE

createAllowed(pos) == ~(pos > validated + forwardBlocks)

newEntry(start, end) ==
    [Status |-> "Created", Cancel |-> "nil", Start |-> start, End |-> end, Runs |-> <<>>]

createNextValidationEntry ==
    /\ chainCaughtUp /\ ~stopped
    /\ LET pos == created
           readNew == nextCreateStartGS.PosInBatch = 0 \/ nextCreateBatchReread
           count == IF readNew THEN BatchMessageCount(nextCreateStartGS.Batch)
                    ELSE nextCreateBatchMsgCount
           endGS == IF pos + 1 < count
                    THEN GS(ResultAtCount(pos + 1), nextCreateStartGS.Batch,
                            nextCreateStartGS.PosInBatch + 1)
                    ELSE GS(ResultAtCount(pos + 1), nextCreateStartGS.Batch + 1, 0)
       IN  /\ createAllowed(pos)
           /\ ~(pos >= StreamerMsgCount)
           /\ nextCreateBatchMsgCount' = count
           /\ nextCreateBatchReread' = (nextCreateBatchReread /\ ~readNew)
           /\ IF pos + 1 <= count
              THEN /\ validations' = [validations EXCEPT ![pos] = newEntry(nextCreateStartGS, endGS)]
                   /\ nextCreateStartGS' = endGS
                   /\ createdA' = pos + 1
              ELSE \* illegal batch msg count
                   UNCHANGED <<validations, nextCreateStartGS, createdA>>
    /\ UNCHANGED <<chainCaughtUp, envVars, recordVars, lastValidGS, valLoopVars,
                   recordSentA, validatedA, fatalErr, db, ghostVars>>

\* ---- recorder loop ----
Min(a, b) == IF a < b THEN a ELSE b

\* sendNextRecordPrepare: <<prepared, nextRecordPrepared>> after the call
sendNextRecordPrepare ==
    IF nextRecordPrepared.state = "pending" THEN <<prepared, nextRecordPrepared>>
    ELSE LET got == IF nextRecordPrepared.state = "ready" /\ nextRecordPrepared.val > prepared
                    THEN nextRecordPrepared.val ELSE prepared
             nextPrepared == Min(validated + prerecordedBlocks, created)
         IN  IF got >= nextPrepared THEN <<got, NoPromise>>
             ELSE <<got, [state |-> "pending", val |-> nextPrepared]>>

sendNextRecordRequest ==
    /\ chainCaughtUp /\ ~stopped
    /\ nextRecordPrepared.state # "failed"
    /\ LET r == sendNextRecordPrepare
           pos == recordSent
       IN  /\ prepared' = r[1]
           /\ nextRecordPrepared' = r[2]
           /\ IF pos < r[1] /\ pos \in Positions /\ validations[pos].Status = "Created"
              THEN /\ validations' = [validations EXCEPT ![pos].Status = "RecordSent"]
                   /\ recordSentA' = pos + 1
              ELSE UNCHANGED <<validations, recordSentA>>
    /\ UNCHANGED <<chainCaughtUp, envVars, createVars, lastValidGS, valLoopVars,
                   createdA, validatedA, fatalErr, db, ghostVars>>

\* the PrepareForRecord promise thread completes
PrepareForRecordDone ==
    /\ ~stopped
    /\ nextRecordPrepared.state = "pending"
    /\ \E ok \in BOOLEAN :
         nextRecordPrepared' = [nextRecordPrepared EXCEPT !.state = IF ok THEN "ready" ELSE "failed"]
    /\ UNCHANGED <<chainCaughtUp, envVars, createVars, prepared, lastValidGS, valLoopVars,
                   cursorVars, validations, fatalErr, db, ghostVars>>

\* validationStatus.replaceStatus on the entry at p, where it succeeds
replaceStatus_Store(p, old, new) ==
    validations' = [validations EXCEPT ![p].Status = new]

replaceStatus(p, old, new) ==
    /\ validations[p].Status = old
    /\ validations' = [validations EXCEPT ![p].Status = new]

\* the thread launched by sendRecord finishes ValidationEntryRecord
sendRecordDone ==
    /\ ~stopped
    /\ \E p \in Positions, ok \in BOOLEAN :
         replaceStatus(p, "RecordSent", IF ok THEN "Prepared" ELSE "RecordFailed")
    /\ UNCHANGED <<chainCaughtUp, envVars, createVars, recordVars, lastValidGS, valLoopVars,
                   cursorVars, fatalErr, db, ghostVars>>

\* ---- Reorg ----
reorgFrame == <<nextCreateBatchReread, nextCreateStartGS, prepared, lastValidGS,
                createdA, recordSentA, validatedA, validations, db, epochStart>>

\* the cursor clamps of Reorg
clampRecordSent_Kept(count) == recordSentA

clampRecordSent(count) == IF recordSentA > count THEN count ELSE recordSentA

clampPrepared_Kept(count) == prepared

clampPrepared(count) == IF prepared > count THEN count ELSE prepared

\* the module roots Reorg persists: it does not know which roots were validated
reorgWasmRoots_Stale == db.WasmRoots

reorgWasmRoots == {}

\* the error Reorg returns ("nil" for none)
ReorgErr(count) == IF count <= 1 THEN "cannot reorg out genesis" ELSE "nil"

Reorg(count, dbOk) ==
    /\ IF count <= 1 \/ ~chainCaughtUp \/ created < count
       THEN UNCHANGED reorgFrame
       ELSE LET endPosition == GlobalStatePositionsAtCount(count)
                res == ResultAtCount(count)
                gone == {p \in Positions : count <= p /\ p < created}
                newStartGS == buildGlobalState(res, endPosition)
            IN  /\ validations' = [p \in Positions |->
                                      IF p \in gone THEN NoEntry ELSE validations[p]]
                /\ nextCreateStartGS' = newStartGS
                /\ nextCreateBatchReread' = TRUE
                /\ createdA' = count
                /\ recordSentA' = clampRecordSent(count)
                /\ IF validatedA > count
                   THEN /\ validatedA' = count
                        /\ lastValidGS' = newStartGS
                        /\ db' = writeLastValidatedToDb(newStartGS, reorgWasmRoots, dbOk)
                        /\ epochStart' = count
                   ELSE UNCHANGED <<validatedA, lastValidGS, db, epochStart>>
                /\ prepared' = clampPrepared(count)

\* Reorg called from outside the pipeline (the streamer)
ReorgCall(count) ==
    /\ ~stopped
    /\ \E dbOk \in DbOutcomes : Reorg(count, dbOk)
    /\ UNCHANGED <<chainCaughtUp, envVars, nextCreateBatchMsgCount, nextRecordPrepared,
                   valLoopVars, fatalErr>>

ExternalReorg == \E count \in 0..(MaxMsg + 1) : ReorgCall(count)

ReorgToBatchCount ==
    /\ ~stopped
    /\ \E count \in 1..(MaxMsg + 1), size \in 1..MaxBatchSize :
         /\ size <= batchSize
         /\ size # batchSize => count = 1
         /\ batchSize' = size
         /\ nextCreateBatchReread' = (nextCreateBatchReread \/ nextCreateStartGS.Batch >= count)
    /\ UNCHANGED <<chainCaughtUp, started, processed, stopped, configVars,
                   moduleVars, leafVars, runVars, chainVars,
                   nextCreateBatchMsgCount,
                   nextCreateStartGS, recordVars, lastValidGS, valLoopVars, cursorVars,
                   validations, fatalErr, db, ghostVars>>

\* ---- validator loop ----
AllRoots == 1..NumRoots

\* Go's integer division, which truncates toward zero
quo(a, b) == IF a >= 0 THEN a \div b ELSE 0 - ((0 - a) \div b)

\* the values a spawner's Room() takes: an int, negative when it is overcommitted
SpawnerRooms == (0 - MaxRoom)..MaxRoom

\* room as advanceValidations computes it from one spawner's Room()
roomFor(spawnerRoom) ==
    LET here == quo(spawnerRoom, NumRoots)
        r1 == IF here <= 0 THEN 0 ELSE 100
    IN  IF here < r1 THEN here ELSE r1

\* advanceValidations up to the first pass of its loop
advanceValidationsStart ==
    /\ chainCaughtUp /\ ~stopped
    /\ valPc = "idle"
    /\ \E spawnerRoom \in SpawnerRooms : room' = roomFor(spawnerRoom)
    /\ valLoopPos' = validated
    /\ valPc' = "loop"
    /\ UNCHANGED <<chainCaughtUp, envVars, createVars, recordVars, lastValidGS, reorgReq,
                   cursorVars, validations, fatalErr, db, ghostVars>>

\* the entry-start check of advanceValidations
startMatches_Unchecked(st) == TRUE

startMatches(st) == st.Start = lastValidGS

\* the verdict of the loop over validationStatus.Runs
scanRuns_FirstOnly(runs, i) ==
    IF Len(runs) = 0 THEN "valid"
    ELSE IF runs[1] = "pending" THEN "notReady"
    ELSE IF runs[1] # "ok" THEN "failed"
    ELSE "valid"

RECURSIVE scanRuns(_, _)
scanRuns(runs, i) ==
    IF i > Len(runs) THEN "valid"
    ELSE IF runs[i] = "pending" THEN "notReady"
    ELSE IF runs[i] # "ok" THEN "failed"
    ELSE scanRuns(runs, i + 1)

\* the module roots advanceValidations collects from the runs of an entry
wasmRootsOf(runs) == {i \in AllRoots : i <= Len(runs)}

\* the value advanceValidations stores in validated after validating pos
nextValidated_Skip(pos) == pos + 2

nextValidated_Stay(pos) == pos

nextValidated(pos) == pos + 1

\* what advanceValidations returns on an entry whose recording failed
recordFailedRequest_None(pos) == NoReorg

recordFailedRequest(pos) == [pos |-> pos, cause |-> "recordFailed"]

valReturn(req) ==
    /\ valPc' = IF req = NoReorg THEN "idle" ELSE "reorg"
    /\ reorgReq' = req
    /\ room' = 0
    /\ valLoopPos' = 0

valContinue(pos, newRoom) ==
    /\ valLoopPos' = pos + 1
    /\ room' = newRoom
    /\ UNCHANGED <<valPc, reorgReq>>

\* go v.recorder.MarkValid(pos, v.lastValidGS.BlockHash): the arguments are evaluated
\* at the go statement and the call runs in a goroutine of its own
goMarkValid(pos, blockHash) ==
    IF markValid.pc = "none" THEN markValid
    ELSE [markValid EXCEPT !.calls = @ \cup {[pos |-> pos, resultHash |-> blockHash]},
                           !.launched = Append(@, pos)]

\* one pass of the validatiosLoop of advanceValidations
advanceValidations ==
    /\ valPc = "loop"
    /\ \E dbOk \in DbOutcomes :
       LET pos == valLoopPos
           found == pos \in Positions /\ validations[pos].Status # "None"
           st == IF found THEN validations[pos] ELSE NoEntry
       IN
       IF stopped \/ pos >= recordSent \/ ~found
       THEN /\ valReturn(NoReorg)
            /\ UNCHANGED <<markValid, lastValidGS, validatedA, validations, fatalErr, db>>
       ELSE IF st.Status = "RecordFailed"
       THEN /\ valReturn(recordFailedRequest(pos))
            /\ UNCHANGED <<markValid, lastValidGS, validatedA, validations, fatalErr, db>>
       ELSE IF st.Status = "ValidationSent" /\ pos = validated
       THEN IF ~startMatches(st)
            THEN /\ validations' = [validations EXCEPT ![pos].Cancel = "called"]
                 /\ valReturn([pos |-> pos, cause |-> "wrongStart"])
                 /\ UNCHANGED <<markValid, lastValidGS, validatedA, fatalErr, db>>
            ELSE IF scanRuns(st.Runs, 1) = "notReady"
            THEN /\ valContinue(pos, room)
                 /\ UNCHANGED <<markValid, lastValidGS, validatedA, validations, fatalErr, db>>
            ELSE IF scanRuns(st.Runs, 1) = "failed"
            THEN /\ fatalErr' = possiblyFatal(fatalErr, "validation failed")
                 /\ valReturn([pos |-> pos, cause |-> "validationFailed"])
                 /\ UNCHANGED <<markValid, lastValidGS, validatedA, validations, db>>
            ELSE /\ lastValidGS' = st.End
                 /\ markValid' = goMarkValid(pos, st.End.BlockHash)
                 /\ db' = writeLastValidatedToDb(st.End, wasmRootsOf(st.Runs), dbOk)
                 /\ validatedA' = nextValidated(pos)
                 /\ valContinue(pos, room)
                 /\ UNCHANGED <<validations, fatalErr>>
       ELSE IF room = 0
       THEN /\ valReturn(NoReorg)
            /\ UNCHANGED <<markValid, lastValidGS, validatedA, validations, fatalErr, db>>
       ELSE IF st.Status = "Prepared"
       THEN /\ validations' = [validations EXCEPT ![pos].Status = "SendingValidation"]
            /\ valContinue(pos, room - 1)
            /\ UNCHANGED <<markValid, lastValidGS, validatedA, fatalErr, db>>
       ELSE /\ valContinue(pos, room)
            /\ UNCHANGED <<markValid, lastValidGS, validatedA, validations, fatalErr, db>>
    /\ UNCHANGED <<chainCaughtUp, started, processed, stopped, configVars, moduleVars,
                   leafVars, runVars, batchCount, smCall, historyCache, search, engine,
                   retryables, syncHelper, reorgMutex, batchSize, createVars, recordVars,
                   createdA, recordSentA, ghostVars>>

\* iterativeValidationProgress after advanceValidations returned a reorg request
iterativeValidationProgress ==
    /\ valPc = "reorg"
    /\ \E dbOk \in DbOutcomes : Reorg(reorgReq.pos, dbOk)
    /\ fatalErr' = IF ReorgErr(reorgReq.pos) # "nil"
                   THEN possiblyFatal(fatalErr, ReorgErr(reorgReq.pos))
                   ELSE fatalErr
    /\ valPc' = "idle"
    /\ reorgReq' = NoReorg
    /\ UNCHANGED <<chainCaughtUp, envVars, nextCreateBatchMsgCount, nextRecordPrepared,
                   valLoopPos, room>>

\* ---- the validation task launched for a Prepared entry ----
validationTaskSetCancel ==
    /\ \E p \in Positions :
         /\ validations[p].Status = "SendingValidation"
         /\ validations[p].Cancel = "nil"
         /\ validations' = [validations EXCEPT ![p].Cancel = "set"]
    /\ UNCHANGED <<chainCaughtUp, envVars, createVars, recordVars, lastValidGS, valLoopVars,
                   cursorVars, fatalErr, db, ghostVars>>

validationTaskLaunch ==
    /\ \E p \in Positions :
         /\ validations[p].Status = "SendingValidation"
         /\ validations[p].Cancel = "set"
         /\ validations' = [validations EXCEPT
                               ![p].Runs = [i \in AllRoots |-> "pending"],
                               ![p].Status = "ValidationSent"]
    /\ UNCHANGED <<chainCaughtUp, envVars, createVars, recordVars, lastValidGS, valLoopVars,
                   cursorVars, fatalErr, db, ghostVars>>

\* a spawner finishes a run: "ok" is the entry's End, "bad" an error or any other
\* global state (advanceValidations turns a wrong state into an error)
RunResults == {"ok", "bad"}

runDone ==
    /\ ~stopped
    /\ \E p \in Positions, i \in AllRoots, res \in RunResults :
         /\ validations[p].Status = "ValidationSent"
         /\ validations[p].Runs[i] = "pending"
         /\ validations' = [validations EXCEPT ![p].Runs[i] = res]
    /\ UNCHANGED <<chainCaughtUp, envVars, createVars, recordVars, lastValidGS, valLoopVars,
                   cursorVars, fatalErr, db, ghostVars>>

StopAndWait ==
    /\ ~stopped
    /\ stopped' = TRUE
    /\ UNCHANGED <<chainCaughtUp, started, processed, configVars, moduleVars, leafVars, runVars, chainVars,
                   batchSize, createVars, recordVars,
                   lastValidGS, valLoopVars, cursorVars, validations, fatalErr, db, ghostVars>>

\* ---- wasm module roots ----
pipelineVars == <<started, processed, chainCaughtUp, stopped, configVars, batchSize,
                  createVars, recordVars, lastValidGS, valLoopVars, cursorVars,
                  validations, fatalErr, db, ghostVars>>

\* common.Hash{}
ZeroHash == 0

ModuleHashes == 0..MaxHash

\* config().CurrentModuleRoot: "current", "latest" or the hex string of a hash
\* (an illegal string converts to the zero hash)
CurrentModuleRootSettings ==
    {[kind |-> "current", hash |-> ZeroHash], [kind |-> "latest", hash |-> ZeroHash]}
        \cup {[kind |-> "hex", hash |-> h] : h \in ModuleHashes}

\* the error SetCurrentWasmModuleRoot(hash) returns ("nil" for none)
setRootErr(hash) ==
    IF hash = ZeroHash THEN "trying to set zero as wasmModuleRoot"
    ELSE IF hash = currentWasmModuleRoot THEN "nil"
    ELSE IF currentWasmModuleRoot = ZeroHash THEN "nil"
    ELSE IF pendingWasmModuleRoot = hash THEN "nil"
    ELSE IF currentModuleRoot.kind # "current" THEN "nil"
    ELSE "unexpected wasmModuleRoot"

\* currentWasmModuleRoot after SetCurrentWasmModuleRoot(hash)
newCurrentRoot_Any(hash) ==
    IF hash = ZeroHash THEN currentWasmModuleRoot ELSE hash

newCurrentRoot(hash) ==
    IF hash = ZeroHash THEN currentWasmModuleRoot
    ELSE IF hash = currentWasmModuleRoot THEN currentWasmModuleRoot
    ELSE IF currentWasmModuleRoot = ZeroHash THEN hash
    ELSE IF pendingWasmModuleRoot = hash THEN hash
    ELSE currentWasmModuleRoot

SetCurrentWasmModuleRoot(hash) ==
    /\ currentWasmModuleRoot' = newCurrentRoot(hash)
    /\ moduleErr' = setRootErr(hash)
    /\ UNCHANGED <<pendingWasmModuleRoot, currentModuleRoot, latestWasmModuleRoot,
                   leafVars, runVars, chainVars, pipelineVars>>

SetCurrentWasmModuleRootCall == \E hash \in ModuleHashes : SetCurrentWasmModuleRoot(hash)

\* Initialize; latestOk is whether execSpawner.LatestWasmModuleRoot answers
Initialize ==
    /\ \E latestOk \in BOOLEAN :
         CASE currentModuleRoot.kind = "latest" ->
                /\ currentWasmModuleRoot' =
                       IF latestOk THEN latestWasmModuleRoot ELSE currentWasmModuleRoot
                /\ moduleErr' = IF latestOk THEN "nil" ELSE "latest root unavailable"
           [] currentModuleRoot.kind = "current" ->
                /\ currentWasmModuleRoot' = currentWasmModuleRoot
                /\ moduleErr' = IF currentWasmModuleRoot = ZeroHash
                                THEN "info not set from chain" ELSE "nil"
           [] OTHER ->
                /\ currentWasmModuleRoot' = currentModuleRoot.hash
                /\ moduleErr' = IF currentModuleRoot.hash = ZeroHash
                                THEN "current-module-root config value illegal" ELSE "nil"
    /\ UNCHANGED <<pendingWasmModuleRoot, currentModuleRoot, latestWasmModuleRoot,
                   leafVars, runVars, chainVars, pipelineVars>>

\* the module roots of a validator that was initialized with its default settings
ModuleRootsSet ==
    /\ currentWasmModuleRoot = 1
    /\ pendingWasmModuleRoot = 2
    /\ currentModuleRoot = [kind |-> "current", hash |-> ZeroHash]
    /\ latestWasmModuleRoot = 2
    /\ moduleErr = "nil"

\* ---- execution run: leaf collection ----
\* a machine halts after haltAt steps in status haltStatus; its Step call number
\* failAt returns an error (0: none does)
Machines ==
    [haltAt : 0..MaxHalt, haltStatus : {"Finished", "Errored"}, failAt : 0..MaxLeaves]

NoLeaves == [err |-> "none", sparseHashes |-> <<>>, length |-> 0]

\* cache.GetMachineAt(index): the step count of the machine handed out
GetMachineAt(index) == IF index < machine.haltAt THEN index ELSE machine.haltAt

\* machine.Step(n) from step count s: the step count afterwards
Step(s, n) == IF s + n < machine.haltAt THEN s + n ELSE machine.haltAt

IsRunning(s) == s < machine.haltAt

\* machine.Status() at step count s
Status_NeverFinished(s) == IF IsRunning(s) THEN "Running" ELSE "Errored"

Status(s) == IF IsRunning(s) THEN "Running" ELSE machine.haltStatus

\* machine.GetGlobalState() at step count s (one global state per step count)
GetGlobalState(s) == s

\* machine.Hash() at step count s
MachineHash(s) == [kind |-> "machine", of |-> s]

\* Keccak256("Machine finished:", gs.Hash())
FinishedHash(gs) == [kind |-> "Machine finished:", of |-> gs]

\* state_hashes.NewStateHashes(hashes, length) with its Length and At
NewStateHashes(hashes, length) == [err |-> "nil", sparseHashes |-> hashes, length |-> length]

Length(h) == h.length

At(h, i) ==
    IF i < Len(h.sparseHashes) THEN h.sparseHashes[i + 1]
    ELSE h.sparseHashes[Len(h.sparseHashes)]

LeavesErr(e) == [err |-> e, sparseHashes |-> <<>>, length |-> 0]

\* the first state root, for the machine at step count s
startRoot_Machine(s) == MachineHash(s)

startRoot(s) ==
    IF machineStartIndex = 0 THEN FinishedHash(GetGlobalState(s)) ELSE MachineHash(s)

\* the loop over numIterations, with the machine at step count s
RECURSIVE collect(_, _, _)
collect(numIterations, s, stateRoots) ==
    IF ~(numIterations < numDesiredLeaves)
    THEN NewStateHashes(stateRoots, numDesiredLeaves)
    ELSE LET position == machineStartIndex + stepSize * (numIterations + 1)
             machineStep == Step(s, stepSize)
         IN  IF machine.failAt = numIterations + 1
             THEN LeavesErr("failed to step machine")
             ELSE IF Status(machineStep) = "Finished"
             THEN NewStateHashes(
                      Append(stateRoots, FinishedHash(GetGlobalState(machineStep))),
                      numDesiredLeaves)
             ELSE IF position # machineStep
                     /\ (IsRunning(machineStep) \/ machineStep > position)
             THEN LeavesErr("machine is in wrong position")
             ELSE collect(numIterations + 1, machineStep,
                          Append(stateRoots, MachineHash(machineStep)))

\* NewMachineCache: a cache that was not destroyed and has no range
NewMachineCache == [destroyed |-> 0, range |-> <<>>]

\* the cache field after the stepSize = 1 branch of GetLeavesWithStepSize
leafCache == IF stepSize = 1 THEN Len(caches) + 1 ELSE cache

\* the value of the promise of GetLeavesWithStepSize on a run that is not stopped
leavesWithStepSize ==
    LET s == GetMachineAt(machineStartIndex)
        stateRoots == <<startRoot(s)>>
    IN  IF numDesiredLeaves = 1 THEN NewStateHashes(stateRoots, Len(stateRoots))
        ELSE collect(0, s, stateRoots)

\* a promise thread launched on a stopped run fails without running
GetLeavesWithStepSize ==
    /\ stepSize = 1 /\ ~runStopped => Len(caches) < MaxCaches
    /\ IF runStopped
       THEN /\ leaves' = LeavesErr("stopped")
            /\ UNCHANGED <<caches, cache>>
       ELSE /\ caches' = IF stepSize = 1 THEN Append(caches, NewMachineCache) ELSE caches
            /\ cache' = leafCache
            /\ leaves' = leavesWithStepSize
    /\ UNCHANGED <<machineStartIndex, stepSize, numDesiredLeaves, machine,
                   closeOnce, runStopped, stepResult, proof, moduleVars, chainVars,
                   pipelineVars>>

\* ---- execution run: the other operations and Close ----
runFrame == <<leafVars, moduleVars, chainVars, pipelineVars>>

NoResult == [err |-> "none"]

Positions0 == 0..MaxStartIndex

PrepareRange(start, end) ==
    /\ ~runStopped
    /\ caches' = [caches EXCEPT ![cache].range = <<start, end>>]
    /\ UNCHANGED <<cache, closeOnce, runStopped, stepResult, proof, runFrame>>

PrepareRangeCall == \E start \in Positions0, end \in Positions0 : PrepareRange(start, end)

\* intermediateGetStepAt for the machine the cache hands out at step count s
stepResultAt(position, s) ==
    IF position # s /\ (IsRunning(s) \/ s > position)
    THEN [err |-> "machine is in wrong position"]
    ELSE [err |-> "nil", Position |-> s, Status |-> Status(s),
          GlobalState |-> GetGlobalState(s), Hash |-> MachineHash(s)]

GetStepAt(position) ==
    /\ ~runStopped
    /\ \E cacheOk \in BOOLEAN :
         stepResult' = IF cacheOk THEN stepResultAt(position, GetMachineAt(position))
                       ELSE [err |-> "cache"]
    /\ UNCHANGED <<caches, cache, closeOnce, runStopped, proof, runFrame>>

GetStepAtCall == \E position \in Positions0 : GetStepAt(position)

\* GetStepAt(^uint64(0)): the final machine, whose step count is below the position
GetLastStep ==
    /\ ~runStopped
    /\ \E cacheOk \in BOOLEAN :
         stepResult' = IF cacheOk
                       THEN [err |-> "nil", Position |-> machine.haltAt,
                             Status |-> Status(machine.haltAt),
                             GlobalState |-> GetGlobalState(machine.haltAt),
                             Hash |-> MachineHash(machine.haltAt)]
                       ELSE [err |-> "cache"]
    /\ UNCHANGED <<caches, cache, closeOnce, runStopped, proof, runFrame>>

GetProofAt(position) ==
    /\ ~runStopped
    /\ \E cacheOk \in BOOLEAN :
         proof' = IF cacheOk THEN [err |-> "nil", ProveNextStep |-> GetMachineAt(position)]
                  ELSE [err |-> "cache"]
    /\ UNCHANGED <<caches, cache, closeOnce, runStopped, stepResult, runFrame>>

GetProofAtCall == \E position \in Positions0 : GetProofAt(position)

\* Close: the first call starts the goroutine of close.Do, a later one does nothing
Close ==
    /\ closeOnce' = IF closeOnce = "new" THEN "called" ELSE closeOnce
    /\ UNCHANGED <<caches, cache, runStopped, stepResult, proof, runFrame>>

\* the goroutine's StopAndWait
closeStopAndWait ==
    /\ closeOnce = "called"
    /\ ~runStopped
    /\ runStopped' = TRUE
    /\ UNCHANGED <<caches, cache, closeOnce, stepResult, proof, runFrame>>

\* the goroutine's cache.Destroy
closeDestroy ==
    /\ closeOnce = "called"
    /\ runStopped
    /\ caches' = IF cache # 0
                 THEN [caches EXCEPT ![cache].destroyed = @ + 1] ELSE caches
    /\ closeOnce' = "done"
    /\ UNCHANGED <<cache, runStopped, stepResult, proof, runFrame>>

\* the run after NewExecutionRun
RunOpen ==
    /\ caches = <<NewMachineCache>>
    /\ cache = 1
    /\ closeOnce = "new"
    /\ runStopped = FALSE
    /\ stepResult = NoResult
    /\ proof = NoResult

\* no execution run is in use
NoExecutionRun ==
    /\ machineStartIndex = 0
    /\ stepSize = 1
    /\ numDesiredLeaves = 1
    /\ machine = [haltAt |-> 0, haltStatus |-> "Finished", failAt |-> 0]
    /\ leaves = NoLeaves
    /\ caches = <<>>
    /\ cache = 0
    /\ closeOnce = "new"
    /\ runStopped = FALSE
    /\ stepResult = NoResult
    /\ proof = NoResult

\* ---- state manager: the chain view ----
NoCall == [op |-> "none"]

\* no batch search is running, and no execution engine, retryable state or sync helper
\* is in use
NoSearch == [pc |-> "none"]

NoEngine == [pc |-> "none"]

NoRetryables == [pc |-> "none"]

NoSyncHelper == [pc |-> "none"]

\* the lock state of reorgMutex is not followed
NoMutex == [pc |-> "none"]

\* the MarkValid goroutines are not followed
NoMarkValid == [pc |-> "none"]

AuxIdle ==
    /\ search = NoSearch
    /\ engine = NoEngine
    /\ retryables = NoRetryables
    /\ syncHelper = NoSyncHelper
    /\ reorgMutex = NoMutex
    /\ markValid = NoMarkValid

\* challengecache.Key values: the wasm module root, the message height and the step
\* heights of a challenge level
Keys ==
    { [WavmModuleRoot |-> 1, MessageHeight |-> 0, StepHeights |-> <<0>>],
      [WavmModuleRoot |-> 1, MessageHeight |-> 1, StepHeights |-> <<0>>],
      [WavmModuleRoot |-> 1, MessageHeight |-> 1, StepHeights |-> <<1>>] }

\* the file of a key: whether it exists, and its bytes
NoFile == [exists |-> FALSE, bytes |-> <<>>]

\* challengecache.New(baseDir): no file was written
EmptyCache == [key \in Keys |-> NoFile]

\* the tracker has the batches of all MaxMsg messages, no state manager call was made
\* and the history cache is empty
NoStateManager ==
    /\ batchCount = MaxMsg + 1
    /\ smCall = NoCall
    /\ historyCache = EmptyCache
    /\ AuxIdle

\* uint64 subtraction wraps; UintMod stands for 2^64 and lies far above every batch
\* and message count used here
UintMod == 1024

SubU(a, b) == (a - b + UintMod) % UintMod

\* the largest message count a batch can have
MaxCount == 1 + MaxMsg * MaxBatchSize

\* inboxTracker.GetBatchMessageCount(batch), an error for a batch the tracker lacks
GetBatchMessageCount(batch) ==
    IF batch < batchCount THEN [err |-> "nil", count |-> BatchMessageCount(batch)]
    ELSE [err |-> "accumulator not found", count |-> 0]

\* streamer.ResultAtCount(count), an error for a count not processed yet
StreamerResultAtCount(count) ==
    IF count <= processed THEN [err |-> "nil", BlockHash |-> ResultAtCount(count)]
    ELSE [err |-> "result not found", BlockHash |-> 0]

BatchErr(e) == [err |-> e, batch |-> 0]

\* the binary search of findBatchAfterMessageCount
RECURSIVE searchBatch(_, _, _)
searchBatch(msgCount, low, high) ==
    IF high < low THEN BatchErr("high < low")
    ELSE LET mid == (low + high) \div 2
             r == GetBatchMessageCount(mid)
             high2 == IF r.err # "nil" THEN mid ELSE high
             batchMsgCount == r.count
         IN  IF batchMsgCount < msgCount THEN searchBatch(msgCount, mid + 1, high2)
             ELSE IF batchMsgCount = msgCount THEN [err |-> "nil", batch |-> mid + 1]
             ELSE IF mid = low THEN [err |-> "nil", batch |-> mid]
             ELSE searchBatch(msgCount, low, mid)

findBatchAfterMessageCount(msgCount) ==
    IF msgCount = 0 THEN [err |-> "nil", batch |-> 0]
    ELSE searchBatch(msgCount, 0, BatchCount)

StateErr(e) == [err |-> e, gs |-> ZeroGS]

findGlobalStateFromMessageCountAndBatch(count, batch) ==
    LET prev == IF batch > 0 THEN GetBatchMessageCount(batch - 1)
                ELSE [err |-> "nil", count |-> 0]
        res == StreamerResultAtCount(count)
    IN  IF prev.err # "nil" THEN StateErr(prev.err)
        ELSE IF prev.count > count THEN StateErr("bad batch provided")
        ELSE IF res.err # "nil" THEN StateErr(res.err)
        ELSE [err |-> "nil", gs |-> GS(res.BlockHash, batch, count - prev.count)]

getInfoAtMessageCountAndBatch(messageCount, batch) ==
    findGlobalStateFromMessageCountAndBatch(messageCount, batch)

executionStateAtMessageNumberImpl(messageNumber) ==
    LET b == findBatchAfterMessageCount(messageNumber)
        batchMsgCount == GetBatchMessageCount(b.batch)
        batch == IF batchMsgCount.count <= messageNumber THEN b.batch + 1 ELSE b.batch
    IN  IF b.err # "nil" THEN StateErr(b.err)
        ELSE IF batchMsgCount.err # "nil" THEN StateErr(batchMsgCount.err)
        ELSE getInfoAtMessageCountAndBatch(messageNumber, batch)

\* the global state ExecutionStateAtMessageNumber hands back for a state of the Impl
normalise_Keep(gs) == gs

normalise(gs) ==
    IF gs.PosInBatch # 0 THEN GS(gs.BlockHash, gs.Batch + 1, 0) ELSE gs

ExecutionStateAtMessageNumber(messageNumber) ==
    LET executionState == executionStateAtMessageNumberImpl(messageNumber)
    IN  IF executionState.err # "nil" THEN executionState
        ELSE [err |-> "nil", gs |-> normalise(executionState.gs)]

CountErr(e) == [err |-> e, count |-> 0]

ExecutionStateMsgCount(state) ==
    IF state.PosInBatch # 0 THEN CountErr("position in batch must be zero")
    ELSE IF state.Batch = 1 THEN [err |-> "nil", count |-> 1]
    ELSE LET batch == SubU(state.Batch, 1)
             messageCount == GetBatchMessageCount(batch)
             validatedExecutionState ==
                 executionStateAtMessageNumberImpl(SubU(messageCount.count, 1))
             res == StreamerResultAtCount(messageCount.count)
         IN  IF messageCount.err # "nil" THEN CountErr(messageCount.err)
             ELSE IF validatedExecutionState.err # "nil"
             THEN CountErr(validatedExecutionState.err)
             ELSE IF validatedExecutionState.gs.Batch < batch
             THEN CountErr("ErrChainCatchingUp")
             ELSE IF res.err # "nil" THEN CountErr(res.err)
             ELSE IF res.BlockHash # state.BlockHash THEN CountErr("ErrNoExecutionState")
             ELSE [err |-> "nil", count |-> messageCount.count]

\* the zero value of common.Hash among the state roots
ZeroRoot == [kind |-> "zero", of |-> ZeroGS]

RootsErr(e) == [err |-> e, stateRoots |-> <<>>]

\* the test that ends the collection at a global state of batch nextBatchCount
reachedNextBatch_Never(gs, nextBatchCount) == FALSE

reachedNextBatch(gs, nextBatchCount) == gs.Batch >= nextBatchCount

\* the loop of statesUpTo from message i on
RECURSIVE statesLoop(_, _, _, _, _)
statesLoop(i, blockEnd, batch0, nextBatchCount, stateRoots) ==
    IF i > blockEnd THEN [err |-> "nil", stateRoots |-> stateRoots]
    ELSE LET batchMsgCount == GetBatchMessageCount(batch0)
             batch == IF batchMsgCount.count <= i THEN batch0 + 1 ELSE batch0
             g == getInfoAtMessageCountAndBatch(i, batch)
         IN  IF batchMsgCount.err # "nil" THEN RootsErr(batchMsgCount.err)
             ELSE IF g.err # "nil" THEN RootsErr(g.err)
             ELSE IF reachedNextBatch(g.gs, nextBatchCount)
             THEN IF g.gs.Batch > nextBatchCount \/ g.gs.PosInBatch > 0
                  THEN RootsErr("overran next batch count")
                  ELSE [err |-> "nil", stateRoots |-> stateRoots]
             ELSE statesLoop(i + 1, blockEnd, batch, nextBatchCount,
                             Append(stateRoots, FinishedHash(g.gs)))

\* the state roots padded with the last one up to desiredStatesLen
padRoots_None(stateRoots, desiredStatesLen) == stateRoots

padRoots(stateRoots, desiredStatesLen) ==
    LET lastStateRoot == IF stateRoots = <<>> THEN ZeroRoot ELSE stateRoots[Len(stateRoots)]
    IN  [j \in 1..(IF Len(stateRoots) < desiredStatesLen
                   THEN desiredStatesLen ELSE Len(stateRoots)) |->
            IF j <= Len(stateRoots) THEN stateRoots[j] ELSE lastStateRoot]

statesUpTo(blockStart, blockEnd, nextBatchCount) ==
    IF blockEnd < blockStart THEN RootsErr("end block is less than start block")
    ELSE LET b == findBatchAfterMessageCount(blockStart)
             batch == IF b.batch = 0 THEN 1 ELSE b.batch
             desiredStatesLen == blockEnd - blockStart + 1
             first == IF blockStart = 0 THEN 1 ELSE blockStart
             r == statesLoop(first, blockEnd, batch, nextBatchCount, <<>>)
         IN  IF b.err # "nil" THEN RootsErr(b.err)
             ELSE IF r.err # "nil" THEN r
             ELSE [err |-> "nil", stateRoots |-> padRoots(r.stateRoots, desiredStatesLen)]

\* challengeLeafHeights[0]
BlockChallengeLeafHeight == MaxMsg

NoHeight == [none |-> TRUE, height |-> 0]

L2MessageStatesUpTo(from, upTo, batch) ==
    LET to == IF upTo.none THEN BlockChallengeLeafHeight ELSE upTo.height
    IN  statesUpTo(from, to, batch)

\* ---- state manager: the calls, one at a time ----
chainFrame == <<batchCount, historyCache, auxVars, leafVars, runVars, moduleVars, pipelineVars>>

StateInputs ==
    { GS(h, b, p) : h \in 0..MaxCount, b \in 0..(MaxMsg + 3), p \in 0..1 }

ExecutionStateMsgCountCall ==
    /\ smCall = NoCall
    /\ \E state \in StateInputs :
         smCall' = [op |-> "ExecutionStateMsgCount", state |-> state,
                    res |-> ExecutionStateMsgCount(state)]
    /\ UNCHANGED chainFrame

ExecutionStateAtMessageNumberCall ==
    /\ smCall = NoCall
    /\ \E messageNumber \in 0..(MaxCount + 1) :
         smCall' = [op |-> "ExecutionStateAtMessageNumber", messageNumber |-> messageNumber,
                    res |-> ExecutionStateAtMessageNumber(messageNumber)]
    /\ UNCHANGED chainFrame

HeightInputs == {NoHeight} \cup {[none |-> FALSE, height |-> h] : h \in 0..(MaxMsg + 1)}

L2MessageStatesUpToCall ==
    /\ smCall = NoCall
    /\ \E from \in 0..MaxMsg, upTo \in HeightInputs, batch \in 0..(MaxMsg + 2) :
         smCall' = [op |-> "L2MessageStatesUpTo", from |-> from, upTo |-> upTo,
                    batch |-> batch, res |-> L2MessageStatesUpTo(from, upTo, batch)]
    /\ UNCHANGED chainFrame

\* ---- specifications ----
\* the pipeline with a reliable store and failures retried (FailureIsFatal off)
\* while the inbox re-posts its batches
Init ==
    /\ InitPipeline
    /\ NoStateManager
    /\ ModuleRootsSet
    /\ NoExecutionRun
    /\ failureIsFatal = FALSE
    /\ forwardBlocks = ForwardBlocks
    /\ prerecordedBlocks = PrerecordedBlocks
    /\ batchSize = MaxBatchSize
    /\ dbFaulty = FALSE

Next ==
    \/ checkValidatedGSCaughUp
    \/ createNextValidationEntry
    \/ sendNextRecordRequest
    \/ PrepareForRecordDone
    \/ sendRecordDone
    \/ advanceValidationsStart
    \/ advanceValidations
    \/ iterativeValidationProgress
    \/ validationTaskSetCancel
    \/ validationTaskLaunch
    \/ runDone
    \/ ExternalReorg
    \/ ReorgToBatchCount

Spec == Init /\ [][Next]_vars

\* the pipeline under either failure policy, with a store that may fail and a node
\* that may stop; fixed batch layout
InitFatal ==
    /\ InitPipeline
    /\ NoStateManager
    /\ ModuleRootsSet
    /\ NoExecutionRun
    /\ failureIsFatal \in BOOLEAN
    /\ forwardBlocks = ForwardBlocks
    /\ prerecordedBlocks = PrerecordedBlocks
    /\ batchSize = 1
    /\ dbFaulty = TRUE

NextFatal ==
    \/ checkValidatedGSCaughUp
    \/ createNextValidationEntry
    \/ sendNextRecordRequest
    \/ PrepareForRecordDone
    \/ sendRecordDone
    \/ advanceValidationsStart
    \/ advanceValidations
    \/ iterativeValidationProgress
    \/ validationTaskSetCancel
    \/ validationTaskLaunch
    \/ runDone
    \/ ExternalReorg
    \/ StopAndWait

SpecFatal == InitFatal /\ [][NextFatal]_vars

\* the pipeline looking one block further ahead of validation, so that entries beyond
\* `validated` are recorded; reliable store, fixed batch layout
InitAhead ==
    /\ InitPipeline
    /\ NoStateManager
    /\ ModuleRootsSet
    /\ NoExecutionRun
    /\ failureIsFatal = FALSE
    /\ forwardBlocks = ForwardBlocks + 1
    /\ prerecordedBlocks = PrerecordedBlocks + 1
    /\ batchSize = 1
    /\ dbFaulty = FALSE

NextAhead ==
    \/ checkValidatedGSCaughUp
    \/ createNextValidationEntry
    \/ sendNextRecordRequest
    \/ PrepareForRecordDone
    \/ sendRecordDone
    \/ advanceValidationsStart
    \/ advanceValidations
    \/ iterativeValidationProgress
    \/ validationTaskSetCancel
    \/ validationTaskLaunch
    \/ runDone
    \/ ExternalReorg

SpecAhead == InitAhead /\ [][NextAhead]_vars

\* the same pipeline under fair scheduling: the three loops are called again after
\* every ValidationPoll and every launched thread runs; Reorg calls from outside and
\* the outcomes of the collaborators stay free
Fairness ==
    /\ WF_vars(checkValidatedGSCaughUp)
    /\ WF_vars(createNextValidationEntry)
    /\ WF_vars(sendNextRecordRequest)
    /\ WF_vars(PrepareForRecordDone)
    /\ WF_vars(sendRecordDone)
    /\ WF_vars(advanceValidationsStart)
    /\ WF_vars(advanceValidations)
    /\ WF_vars(iterativeValidationProgress)
    /\ WF_vars(validationTaskSetCancel)
    /\ WF_vars(validationTaskLaunch)
    /\ WF_vars(runDone)

SpecLive == InitAhead /\ [][NextAhead]_vars /\ Fairness

\* the validator of a fresh node from its construction on: lastValidGS comes from
\* AssumeValid or from Start, and the streamer is still processing messages
InitStart ==
    /\ InitWorkers
    /\ NoStateManager
    /\ ModuleRootsSet
    /\ NoExecutionRun
    /\ started = FALSE
    /\ processed \in 1..MaxMsg
    /\ lastValidGS = ZeroGS
    /\ failureIsFatal = FALSE
    /\ forwardBlocks = ForwardBlocks
    /\ prerecordedBlocks = PrerecordedBlocks
    /\ batchSize = MaxBatchSize
    /\ dbFaulty = FALSE

NextStart ==
    \/ AssumeValidCall
    \/ Start
    \/ streamerAdvance
    \/ checkValidatedGSCaughUp
    \/ createNextValidationEntry
    \/ sendNextRecordRequest
    \/ PrepareForRecordDone
    \/ sendRecordDone
    \/ advanceValidationsStart
    \/ advanceValidations
    \/ iterativeValidationProgress
    \/ validationTaskSetCancel
    \/ validationTaskLaunch
    \/ runDone
    \/ ExternalReorg

SpecStart == InitStart /\ [][NextStart]_vars

\* the pipeline settings of a validator whose loops are not running
PipelineIdle ==
    /\ InitWorkers
    /\ started = FALSE
    /\ processed = 1
    /\ lastValidGS = ZeroGS
    /\ failureIsFatal = FALSE
    /\ forwardBlocks = ForwardBlocks
    /\ prerecordedBlocks = PrerecordedBlocks
    /\ batchSize = 1
    /\ dbFaulty = FALSE

\* the module roots of a newly built validator under every setting: no current root
\* yet, any pending root, and the chain then reports its roots
InitModule ==
    /\ PipelineIdle
    /\ NoStateManager
    /\ NoExecutionRun
    /\ currentWasmModuleRoot = ZeroHash
    /\ pendingWasmModuleRoot \in ModuleHashes
    /\ currentModuleRoot \in CurrentModuleRootSettings
    /\ latestWasmModuleRoot \in ModuleHashes \ {ZeroHash}
    /\ moduleErr = "nil"

NextModule ==
    \/ SetCurrentWasmModuleRootCall
    \/ Initialize

SpecModule == InitModule /\ [][NextModule]_vars

\* one leaf collection for every machine, start index, step size and leaf count
InitLeaves ==
    /\ PipelineIdle
    /\ NoStateManager
    /\ ModuleRootsSet
    /\ machineStartIndex \in 0..MaxStartIndex
    /\ stepSize \in 0..MaxStepSize
    /\ numDesiredLeaves \in 0..MaxLeaves
    /\ machine \in Machines
    /\ leaves = NoLeaves
    /\ RunOpen

NextLeaves == GetLeavesWithStepSize

SpecLeaves == InitLeaves /\ [][NextLeaves]_vars

\* one execution run over a machine that halts after MaxHalt steps, under every step
\* size of its leaf collections, used and closed in any order
InitRun ==
    /\ PipelineIdle
    /\ NoStateManager
    /\ ModuleRootsSet
    /\ machineStartIndex = 0
    /\ stepSize \in 0..MaxStepSize
    /\ numDesiredLeaves = 2
    /\ machine = [haltAt |-> MaxHalt, haltStatus |-> "Finished", failAt |-> 0]
    /\ leaves = NoLeaves
    /\ RunOpen

NextRun ==
    \/ PrepareRangeCall
    \/ GetStepAtCall
    \/ GetLastStep
    \/ GetProofAtCall
    \/ GetLeavesWithStepSize
    \/ Close
    \/ closeStopAndWait
    \/ closeDestroy

SpecRun == InitRun /\ [][NextRun]_vars

\* the caller takes the answer of its call
smReturn ==
    /\ smCall # NoCall
    /\ smCall' = NoCall
    /\ UNCHANGED chainFrame

\* a state manager over every chain view: the tracker has 1..MaxMsg+1 batches of
\* 1..MaxBatchSize messages each after the genesis batch, and the streamer has
\* processed any number of messages
InitChain ==
    /\ InitWorkers
    /\ ModuleRootsSet
    /\ NoExecutionRun
    /\ started = FALSE
    /\ lastValidGS = ZeroGS
    /\ failureIsFatal = FALSE
    /\ forwardBlocks = ForwardBlocks
    /\ prerecordedBlocks = PrerecordedBlocks
    /\ dbFaulty = FALSE
    /\ batchSize \in 1..MaxBatchSize
    /\ processed \in 1..MaxCount
    /\ batchCount \in 1..(MaxMsg + 1)
    /\ smCall = NoCall
    /\ historyCache = EmptyCache
    /\ AuxIdle

NextChain ==
    \/ ExecutionStateMsgCountCall
    \/ ExecutionStateAtMessageNumberCall
    \/ L2MessageStatesUpToCall
    \/ smReturn

SpecChain == InitChain /\ [][NextChain]_vars

\* ---- history cache: files of state roots ----
\* a root is written as HashLength bytes: its kind, then what it is the hash of
HashLength == 2

hashBytes(h) == <<IF h.kind = "machine" THEN 0 ELSE 1, h.of>>

bytesHash(b) ==
    [kind |-> IF b[1] = 0 THEN "machine" ELSE "Machine finished:", of |-> b[2]]

\* writeStateRoots: the roots one after the other
RECURSIVE writeStateRoots(_)
writeStateRoots(roots) ==
    IF roots = <<>> THEN <<>>
    ELSE hashBytes(Head(roots)) \o writeStateRoots(Tail(roots))

SomeHeight(h) == [none |-> FALSE, height |-> h]

\* reading stops once the roots up to height upTo were read
enoughRead_One(upTo, n) == ~upTo.none /\ n = upTo.height

enoughRead(upTo, n) == ~upTo.none /\ n = upTo.height + 1

CacheErr(e, n) == [err |-> e, roots |-> <<>>, read |-> n]

\* readStateRoots: HashLength bytes at a time until upTo is reached or the file ends
RECURSIVE readStateRoots(_, _, _)
readStateRoots(bytes, upTo, roots) ==
    IF enoughRead(upTo, Len(roots))
    THEN [err |-> "nil", roots |-> roots, read |-> Len(roots)]
    ELSE IF bytes = <<>>
    THEN IF upTo.none THEN [err |-> "nil", roots |-> roots, read |-> Len(roots)]
         ELSE CacheErr("only read N state roots", Len(roots))
    ELSE IF Len(bytes) < HashLength
    THEN CacheErr("expected to read HashLength bytes", Len(roots))
    ELSE readStateRoots(SubSeq(bytes, HashLength + 1, Len(bytes)), upTo,
                        Append(roots, bytesHash(SubSeq(bytes, 1, HashLength))))

\* Cache.Get(lookup, upTo) on the files c
Get(c, key, upTo) ==
    IF ~c[key].exists THEN CacheErr("ErrNotFoundInCache", 0)
    ELSE readStateRoots(c[key].bytes, upTo, <<>>)

\* Cache.Put(lookup, stateRoots) on the files c: the error, and the files afterwards
Put(c, key, stateRoots) ==
    IF c[key].exists THEN [err |-> "ErrFileAlreadyExists", files |-> c]
    ELSE [err |-> "nil",
          files |-> [c EXCEPT ![key] = [exists |-> TRUE,
                                        bytes |-> writeStateRoots(stateRoots)]]]

\* ---- state manager: machine hashes and one step proofs ----
\* the []common.Hash of a StateHashes value
hashList(h) == [i \in 1..Length(h) |-> At(h, i - 1)]

\* intermediateStepLeaves for the collector configuration held in machineStartIndex,
\* stepSize and numDesiredLeaves; entryOk: the validation entry and the run are created
intermediateStepLeaves(key, toStep, entryOk) ==
    LET lastZero == key.StepHeights[Len(key.StepHeights)] = 0
        cached == Get(historyCache, key, SomeHeight(toStep))
        stepLeaves == leavesWithStepSize
        result == hashList(stepLeaves)
        put == Put(historyCache, key, result)
    IN  IF lastZero /\ cached.err = "nil"
        THEN [err |-> "nil", roots |-> cached.roots, run |-> FALSE, files |-> historyCache]
        ELSE IF ~entryOk
        THEN [err |-> "entry", roots |-> <<>>, run |-> FALSE, files |-> historyCache]
        ELSE IF stepLeaves.err # "nil"
        THEN [err |-> stepLeaves.err, roots |-> <<>>, run |-> TRUE, files |-> historyCache]
        ELSE [err |-> "nil", roots |-> result, run |-> TRUE,
              files |-> IF Len(result) > 1 /\ lastZero THEN put.files ELSE historyCache]

CollectMachineHashes(key, entryOk) ==
    intermediateStepLeaves(key, machineStartIndex + stepSize * numDesiredLeaves, entryOk)

providerFrame == <<batchCount, auxVars, leafVars, runVars, moduleVars, pipelineVars>>

CollectMachineHashesCall ==
    /\ smCall = NoCall
    /\ \E key \in Keys, entryOk \in BOOLEAN :
         LET r == CollectMachineHashes(key, entryOk)
         IN  /\ smCall' = [op |-> "CollectMachineHashes", key |-> key, entryOk |-> entryOk,
                           err |-> r.err, roots |-> r.roots, run |-> r.run,
                           before |-> historyCache]
             /\ historyCache' = r.files
    /\ UNCHANGED providerFrame

numOpcodesPerBigStep == MaxStepSize

\* the small step leaves from small step 0 to toSmallStep of big step bigStep
smallStepLeaves(bigStep, toSmallStep) ==
    [i \in 1..(toSmallStep + 1) |->
        MachineHash(GetMachineAt(bigStep * numOpcodesPerBigStep + i - 1))]

\* commitments.New(hashes)
commitmentsNew(hashes) == [Height |-> Len(hashes) - 1, LastLeaf |-> hashes[Len(hashes)]]

SmallStepCommitmentUpTo(bigStep, toSmallStep) ==
    commitmentsNew(smallStepLeaves(bigStep, toSmallStep))

ProofErr(e) == [err |-> e]

\* collabOk: the validation entry, the run and the proof are produced
OneStepProofData(bigStep, smallStep, collabOk) ==
    LET startCommit == SmallStepCommitmentUpTo(bigStep, smallStep)
        endCommit == SmallStepCommitmentUpTo(bigStep, smallStep)
        step == bigStep * numOpcodesPerBigStep + smallStep
        before == stepResultAt(step, GetMachineAt(step))
        after == stepResultAt(step + 1, GetMachineAt(step + 1))
    IN  IF ~collabOk THEN ProofErr("collaborator")
        ELSE IF before.err # "nil" THEN ProofErr(before.err)
        ELSE IF before.Hash # startCommit.LastLeaf
        THEN ProofErr("machine executed to start step")
        ELSE IF after.err # "nil" THEN ProofErr(after.err)
        ELSE IF after.Hash # endCommit.LastLeaf
        THEN ProofErr("machine executed to end step")
        ELSE [err |-> "nil", BeforeHash |-> startCommit.LastLeaf,
              startLastLeaf |-> startCommit.LastLeaf, endLastLeaf |-> endCommit.LastLeaf]

OneStepProofDataCall ==
    /\ smCall = NoCall
    /\ \E bigStep \in Positions0, smallStep \in Positions0, collabOk \in BOOLEAN :
         smCall' = [op |-> "OneStepProofData", bigStep |-> bigStep, smallStep |-> smallStep,
                    collabOk |-> collabOk,
                    result |-> OneStepProofData(bigStep, smallStep, collabOk)]
    /\ UNCHANGED <<historyCache, providerFrame>>

\* the state roots handed to the cache directly
CacheRoots == {MachineHash(0), FinishedHash(1)}

RootLists == UNION {[1..n -> CacheRoots] : n \in 1..MaxRoots}

UpToInputs == {NoHeight} \cup {SomeHeight(k) : k \in 0..MaxRoots}

PutCall ==
    /\ smCall = NoCall
    /\ \E key \in Keys, stateRoots \in RootLists :
         LET r == Put(historyCache, key, stateRoots)
         IN  /\ smCall' = [op |-> "Put", key |-> key, stateRoots |-> stateRoots,
                           err |-> r.err, before |-> historyCache[key]]
             /\ historyCache' = r.files
    /\ UNCHANGED providerFrame

GetCall ==
    /\ smCall = NoCall
    /\ \E key \in Keys, upTo \in UpToInputs :
         LET r == Get(historyCache, key, upTo)
         IN  smCall' = [op |-> "Get", key |-> key, upTo |-> upTo,
                        err |-> r.err, roots |-> r.roots, read |-> r.read]
    /\ UNCHANGED <<historyCache, providerFrame>>

\* no run is held between the calls of the state manager
NoRun ==
    /\ leaves = NoLeaves
    /\ caches = <<>>
    /\ cache = 0
    /\ closeOnce = "new"
    /\ runStopped = FALSE
    /\ stepResult = NoResult
    /\ proof = NoResult

\* a state manager with an empty history cache, for every machine and every collector
\* configuration
InitProvider ==
    /\ PipelineIdle
    /\ ModuleRootsSet
    /\ NoRun
    /\ machineStartIndex \in 0..MaxStartIndex
    /\ stepSize \in 0..MaxStepSize
    /\ numDesiredLeaves \in 1..MaxLeaves
    /\ machine \in Machines
    /\ NoStateManager

NextProvider ==
    \/ CollectMachineHashesCall
    \/ OneStepProofDataCall
    \/ smReturn

SpecProvider == InitProvider /\ [][NextProvider]_vars

\* a history cache used directly, from empty
InitCache ==
    /\ PipelineIdle
    /\ ModuleRootsSet
    /\ NoExecutionRun
    /\ NoStateManager

NextCache ==
    \/ PutCall
    \/ GetCall
    \/ smReturn

SpecCache == InitCache /\ [][NextCache]_vars

\* ---- state manager: the binary search, one loop iteration at a time ----
\* the tracker's cumulative message counts, batch b at index b + 1: non-decreasing,
\* the first batch holding the init message
TrackerCounts ==
    {c \in UNION {[1..n -> 1..MaxCount] : n \in 1..(MaxMsg + 1)} :
        \A i \in 1..(Len(c) - 1) : c[i] <= c[i + 1]}

\* inboxTracker.GetBatchMessageCount(batch) over the counts c
trackerCount(c, batch) ==
    IF batch < Len(c) THEN [err |-> "nil", count |-> c[batch + 1]]
    ELSE [err |-> "accumulator not found", count |-> 0]

\* the entry of findBatchAfterMessageCount up to the loop
searchStart ==
    /\ search.pc = "start"
    /\ search' = IF search.msgCount = 0
                 THEN [search EXCEPT !.pc = "done", !.result = [err |-> "nil", batch |-> 0]]
                 ELSE [search EXCEPT !.pc = "loop", !.low = 0, !.high = Len(search.counts)]
    /\ UNCHANGED <<batchCount, smCall, historyCache, engine, retryables, syncHelper,
                   reorgMutex, markValid, leafVars, runVars, moduleVars, pipelineVars>>

\* one iteration of the loop; trackerOk: the tracker answers with a count or with
\* "accumulator not found"
searchIteration(trackerOk) ==
    LET low == search.low
        high == search.high
        msgCount == search.msgCount
        mid == (low + high) \div 2
        r == trackerCount(search.counts, mid)
        high2 == IF r.err # "nil" THEN mid ELSE high
        batchMsgCount == r.count
        seen == [search EXCEPT !.mid = mid, !.prevLow = low, !.prevHigh = high,
                               !.answer = IF r.err # "nil" THEN "not found"
                                          ELSE IF batchMsgCount < msgCount THEN "smaller"
                                          ELSE IF batchMsgCount = msgCount THEN "equal"
                                          ELSE "greater"]
    IN  IF high < low
        THEN [search EXCEPT !.pc = "done", !.result = BatchErr("high < low")]
        ELSE IF ~trackerOk
        THEN [seen EXCEPT !.pc = "done", !.answer = "failed",
                          !.result = BatchErr("failed to get batch metadata")]
        ELSE IF batchMsgCount < msgCount
        THEN [seen EXCEPT !.low = mid + 1, !.high = high2]
        ELSE IF batchMsgCount = msgCount
        THEN [seen EXCEPT !.pc = "done", !.result = [err |-> "nil", batch |-> mid + 1]]
        ELSE IF mid = low
        THEN [seen EXCEPT !.pc = "done", !.result = [err |-> "nil", batch |-> mid]]
        ELSE [seen EXCEPT !.high = mid]

searchLoop ==
    /\ search.pc = "loop"
    /\ \E trackerOk \in BOOLEAN : search' = searchIteration(trackerOk)
    /\ UNCHANGED <<batchCount, smCall, historyCache, engine, retryables, syncHelper,
                   reorgMutex, markValid, leafVars, runVars, moduleVars, pipelineVars>>

\* one call of findBatchAfterMessageCount for every tracker and message count
InitSearch ==
    /\ PipelineIdle
    /\ ModuleRootsSet
    /\ NoExecutionRun
    /\ batchCount = MaxMsg + 1
    /\ smCall = NoCall
    /\ historyCache = EmptyCache
    /\ engine = NoEngine
    /\ retryables = NoRetryables
    /\ syncHelper = NoSyncHelper
    /\ reorgMutex = NoMutex
    /\ markValid = NoMarkValid
    /\ \E c \in TrackerCounts, m \in 0..(MaxCount + 1) :
         search = [pc |-> "start", counts |-> c, msgCount |-> m, low |-> 0, high |-> 0,
                   mid |-> 0, prevLow |-> 0, prevHigh |-> 0, answer |-> "none",
                   result |-> BatchErr("none")]

NextSearch ==
    \/ searchStart
    \/ searchLoop

SpecSearch == InitSearch /\ [][NextSearch]_vars

\* ---- reorgMutex: the threads that take it ----
\* the entry creator, the record sender and the validator loop take the read side, the
\* validator loop and the callers of Reorg and ReorgToBatchCount the write side
Readers == {"creator", "recorder", "validator"}

Writers == {"validator", "reorgCaller", "trackerCaller"}

Threads == Readers \cup Writers

\* sync.RWMutex: the threads holding the read side, and the threads in Lock in the
\* order they arrived (the first of them is waiting for the readers to leave, or
\* holds the lock)
MutexFree ==
    [pc |-> [t \in Threads |-> "idle"], readers |-> {}, writers |-> <<>>]

mutexFrame == <<batchCount, smCall, historyCache, search, engine, retryables, syncHelper,
                markValid,
                leafVars, runVars, moduleVars, pipelineVars>>

\* RLock: blocks while a writer holds the lock or waits for it
RLock(m, t) ==
    IF m.writers = <<>>
    THEN [m EXCEPT !.pc[t] = "holdR", !.readers = @ \cup {t}]
    ELSE [m EXCEPT !.pc[t] = "waitR"]

RUnlock(m, t) == [m EXCEPT !.readers = @ \ {t}]

\* createNextValidationEntry and sendNextRecordRequest: RLock at entry
workerRLock ==
    /\ \E t \in {"creator", "recorder"} :
         /\ reorgMutex.pc[t] = "idle"
         /\ reorgMutex' = RLock(reorgMutex, t)
    /\ UNCHANGED mutexFrame

\* the deferred RUnlock when they return
workerReturn ==
    /\ \E t \in {"creator", "recorder"} :
         /\ reorgMutex.pc[t] = "holdR"
         /\ reorgMutex' = [RUnlock(reorgMutex, t) EXCEPT !.pc[t] = "idle"]
    /\ UNCHANGED mutexFrame

\* advanceValidations: RLock at entry
validatorRLock ==
    /\ reorgMutex.pc["validator"] = "idle"
    /\ reorgMutex' = RLock(reorgMutex, "validator")
    /\ UNCHANGED mutexFrame

\* the head of validatiosLoop: RUnlock, then RLock
validatorLoopHead ==
    /\ reorgMutex.pc["validator"] = "holdR"
    /\ reorgMutex' = RLock(RUnlock(reorgMutex, "validator"), "validator")
    /\ UNCHANGED mutexFrame

\* the read side after advanceValidations returned
readersAfterReturn_Held(m, t) == m

readersAfterReturn(m, t) == RUnlock(m, t)

\* advanceValidations returns, with a reorg request or without
validatorReturn ==
    /\ reorgMutex.pc["validator"] = "holdR"
    /\ \E reorg \in BOOLEAN :
         reorgMutex' = [readersAfterReturn(reorgMutex, "validator") EXCEPT
                           !.pc["validator"] = IF reorg THEN "reorg" ELSE "idle"]
    /\ UNCHANGED mutexFrame

\* Lock: the caller queues behind the writers before it
Lock(m, t) == [m EXCEPT !.pc[t] = "waitW", !.writers = Append(@, t)]

\* iterativeValidationProgress calls Reorg with the request
validatorReorg ==
    /\ reorgMutex.pc["validator"] = "reorg"
    /\ reorgMutex' = Lock(reorgMutex, "validator")
    /\ UNCHANGED mutexFrame

\* Reorg and ReorgToBatchCount called from outside
callerLock ==
    /\ \E t \in {"reorgCaller", "trackerCaller"} :
         /\ reorgMutex.pc[t] = "idle"
         /\ reorgMutex' = Lock(reorgMutex, t)
    /\ UNCHANGED mutexFrame

\* the first writer gets the lock once the readers have left
lockAcquired ==
    /\ reorgMutex.writers # <<>>
    /\ reorgMutex.pc[Head(reorgMutex.writers)] = "waitW"
    /\ reorgMutex.readers = {}
    /\ reorgMutex' = [reorgMutex EXCEPT !.pc[Head(reorgMutex.writers)] = "holdW"]
    /\ UNCHANGED mutexFrame

\* the deferred Unlock of Reorg and ReorgToBatchCount: the readers that waited are let
\* in before the next writer
Unlock ==
    /\ reorgMutex.writers # <<>>
    /\ reorgMutex.pc[Head(reorgMutex.writers)] = "holdW"
    /\ LET t == Head(reorgMutex.writers)
           waiting == {r \in Threads : reorgMutex.pc[r] = "waitR"}
       IN  reorgMutex' =
             [pc |-> [r \in Threads |->
                        IF r = t THEN "idle"
                        ELSE IF r \in waiting THEN "holdR"
                        ELSE reorgMutex.pc[r]],
              readers |-> reorgMutex.readers \cup waiting,
              writers |-> Tail(reorgMutex.writers)]
    /\ UNCHANGED mutexFrame

\* the workers of a started validator and the callers of Reorg, nobody holding the lock
InitMutex ==
    /\ PipelineIdle
    /\ ModuleRootsSet
    /\ NoExecutionRun
    /\ batchCount = MaxMsg + 1
    /\ smCall = NoCall
    /\ historyCache = EmptyCache
    /\ search = NoSearch
    /\ engine = NoEngine
    /\ retryables = NoRetryables
    /\ syncHelper = NoSyncHelper
    /\ reorgMutex = MutexFree
    /\ markValid = NoMarkValid

NextMutex ==
    \/ workerRLock
    \/ workerReturn
    \/ validatorRLock
    \/ validatorLoopHead
    \/ validatorReturn
    \/ validatorReorg
    \/ callerLock
    \/ lockAcquired
    \/ Unlock

\* every thread that can run does: the workers finish their pass, the validator
\* calls Reorg with the request it returned, a thread is handed the lock when it is
\* free; the calls from outside and the start of a worker pass stay free
MutexFairness ==
    /\ WF_vars(workerReturn)
    /\ WF_vars(validatorLoopHead \/ validatorReturn)
    /\ WF_vars(validatorReorg)
    /\ WF_vars(lockAcquired)
    /\ WF_vars(Unlock)

SpecMutex == InitMutex /\ [][NextMutex]_vars /\ MutexFairness

\* ---- the pipeline while its collaborators succeed ----
\* the Recorder prepares and records every entry
PrepareForRecordOk ==
    PrepareForRecordDone /\ nextRecordPrepared'.state = "ready"

sendRecordOk ==
    sendRecordDone /\ \A p \in Positions : validations'[p].Status # "RecordFailed"

\* the spawners report room for at least one entry
advanceValidationsStartRoom ==
    advanceValidationsStart /\ room' > 0

\* every run returns its entry's End
runDoneOk ==
    runDone /\ \A p \in Positions :
                 validations'[p].Status = "ValidationSent"
                    => \A i \in AllRoots : validations'[p].Runs[i] # "bad"

\* no Reorg is called from outside, and each loop is called again after
\* ValidationPoll whether or not its channel was triggered
NextProgress ==
    \/ checkValidatedGSCaughUp
    \/ createNextValidationEntry
    \/ sendNextRecordRequest
    \/ PrepareForRecordOk
    \/ sendRecordOk
    \/ advanceValidationsStartRoom
    \/ advanceValidations
    \/ validationTaskSetCancel
    \/ validationTaskLaunch
    \/ runDoneOk

ProgressFairness ==
    /\ WF_vars(checkValidatedGSCaughUp)
    /\ WF_vars(createNextValidationEntry)
    /\ WF_vars(sendNextRecordRequest)
    /\ WF_vars(PrepareForRecordOk)
    /\ WF_vars(sendRecordOk)
    /\ WF_vars(advanceValidationsStartRoom)
    /\ WF_vars(advanceValidations)
    /\ WF_vars(validationTaskSetCancel)
    /\ WF_vars(validationTaskLaunch)
    /\ WF_vars(runDoneOk)

SpecProgress == InitAhead /\ [][NextProgress]_vars /\ ProgressFairness

\* ---- the MarkValid goroutines ----
\* no MarkValid goroutine was launched yet
MarkValidIdle == [pc |-> "watch", calls |-> {}, launched |-> <<>>, reached |-> <<>>]

\* one of the launched goroutines is scheduled and calls the Recorder's MarkValid
MarkValid ==
    /\ markValid.pc = "watch"
    /\ \E c \in markValid.calls :
         markValid' = [markValid EXCEPT !.calls = @ \ {c}, !.reached = Append(@, c)]
    /\ UNCHANGED <<batchCount, smCall, historyCache, search, engine, retryables, syncHelper,
                   reorgMutex, leafVars, runVars, moduleVars, pipelineVars>>

\* the pipeline of InitAhead with the MarkValid goroutines followed
InitMark ==
    /\ InitPipeline
    /\ ModuleRootsSet
    /\ NoExecutionRun
    /\ batchCount = MaxMsg + 1
    /\ smCall = NoCall
    /\ historyCache = EmptyCache
    /\ search = NoSearch
    /\ engine = NoEngine
    /\ retryables = NoRetryables
    /\ syncHelper = NoSyncHelper
    /\ reorgMutex = NoMutex
    /\ markValid = MarkValidIdle
    /\ failureIsFatal = FALSE
    /\ forwardBlocks = ForwardBlocks + 1
    /\ prerecordedBlocks = PrerecordedBlocks + 1
    /\ batchSize = 1
    /\ dbFaulty = FALSE

\* one epoch: Reorg is not called
NextMark ==
    \/ NextProgress
    \/ MarkValid

SpecMark == InitMark /\ [][NextMark]_vars

\* ---- the execution engine's createBlocksMutex ----
\* the callers that take createBlocksMutex
EngineCallers == {"reorg", "DigestMessage", "SequenceTransactions", "SequenceDelayedMessage"}

\* NewExecutionEngine: the mutex is free, nobody is in a call and the threads of
\* Start are not launched; resequencer is the position of the thread that listens
\* to resequenceChan
EngineNew ==
    [pc |-> "engine", locked |-> FALSE, ctxDone |-> FALSE, resequencer |-> "off",
     at |-> [t \in EngineCallers |-> "idle"], oldMessages |-> FALSE]

engineFrame == <<batchCount, smCall, historyCache, search, retryables, syncHelper,
                 reorgMutex, markValid, leafVars, runVars, moduleVars, pipelineVars>>

\* Start launches the thread that listens to resequenceChan
engineStart ==
    /\ engine.pc = "engine"
    /\ engine.resequencer = "off"
    /\ engine' = [engine EXCEPT !.resequencer = "select"]
    /\ UNCHANGED engineFrame

\* the context of the engine is cancelled (StopAndWait)
engineStop ==
    /\ engine.pc = "engine"
    /\ engine.resequencer # "off"
    /\ ~engine.ctxDone
    /\ engine' = [engine EXCEPT !.ctxDone = TRUE]
    /\ UNCHANGED engineFrame

\* a call of reorg (with or without old messages), SequenceTransactions or
\* SequenceDelayedMessage reaches createBlocksMutex.Lock()
engineCall ==
    /\ engine.pc = "engine"
    /\ \E t \in EngineCallers \ {"DigestMessage"} :
         /\ engine.at[t] = "idle"
         /\ \E old \in BOOLEAN :
              engine' = [engine EXCEPT !.at[t] = "Lock",
                                       !.oldMessages = IF t = "reorg" THEN old ELSE @]
    /\ UNCHANGED engineFrame

\* createBlocksMutex.Lock() returns once the mutex is free
engineLock ==
    /\ engine.pc = "engine"
    /\ ~engine.locked
    /\ \E t \in EngineCallers \ {"DigestMessage"} :
         /\ engine.at[t] = "Lock"
         /\ engine' = [engine EXCEPT !.locked = TRUE, !.at[t] = "held"]
    /\ UNCHANGED engineFrame

\* DigestMessage: TryLock, and "createBlock mutex held" when it fails
DigestMessageTryLock ==
    /\ engine.pc = "engine"
    /\ engine.at["DigestMessage"] = "idle"
    /\ engine' = IF engine.locked
                 THEN [engine EXCEPT !.at["DigestMessage"] = "refused"]
                 ELSE [engine EXCEPT !.locked = TRUE, !.at["DigestMessage"] = "held"]
    /\ UNCHANGED engineFrame

\* the return of a call: the deferred Unlock of the three callers other than reorg
engineReturnOf(t) ==
    /\ engine.pc = "engine"
    /\ \/ /\ engine.at[t] = "held"
          /\ engine' = [engine EXCEPT !.locked = FALSE, !.at[t] = "idle"]
       \/ /\ engine.at[t] = "refused"
          /\ engine' = [engine EXCEPT !.at[t] = "idle"]
    /\ UNCHANGED engineFrame

engineReturn == \E t \in EngineCallers \ {"reorg"} : engineReturnOf(t)

\* what reorg leaves of the mutex when it returns without a send on resequenceChan
reorgUnlock_Kept(locked) == locked

reorgUnlock(locked) == FALSE

\* reorg after Lock, up to its return or to the send on resequenceChan; ok is
\* whether the target block was found and the blockchain calls succeeded
reorgBody ==
    /\ engine.pc = "engine"
    /\ engine.at["reorg"] = "held"
    /\ \E ok \in BOOLEAN :
         IF ok /\ engine.oldMessages
         THEN engine' = [engine EXCEPT !.at["reorg"] = "send"]
         ELSE engine' = [engine EXCEPT !.locked = reorgUnlock(@), !.at["reorg"] = "idle"]
    /\ UNCHANGED engineFrame

\* resequenceChan is unbuffered: the send of reorg completes when the thread of
\* Start receives; reorg then returns with the mutex held
resequenceReceive ==
    /\ engine.pc = "engine"
    /\ engine.at["reorg"] = "send"
    /\ engine.resequencer = "select"
    /\ engine' = [engine EXCEPT !.at["reorg"] = "idle", !.resequencer = "resequence"]
    /\ UNCHANGED engineFrame

\* the thread of Start after resequenceReorgedMessages: Unlock and back to select
resequenceDone ==
    /\ engine.pc = "engine"
    /\ engine.resequencer = "resequence"
    /\ engine' = [engine EXCEPT !.locked = FALSE, !.resequencer = "select"]
    /\ UNCHANGED engineFrame

\* the thread of Start returns on <-ctx.Done()
resequencerReturn ==
    /\ engine.pc = "engine"
    /\ engine.resequencer = "select"
    /\ engine.ctxDone
    /\ engine' = [engine EXCEPT !.resequencer = "returned"]
    /\ UNCHANGED engineFrame

InitEngine ==
    /\ PipelineIdle
    /\ ModuleRootsSet
    /\ NoExecutionRun
    /\ batchCount = MaxMsg + 1
    /\ smCall = NoCall
    /\ historyCache = EmptyCache
    /\ search = NoSearch
    /\ engine = EngineNew
    /\ retryables = NoRetryables
    /\ syncHelper = NoSyncHelper
    /\ reorgMutex = NoMutex
    /\ markValid = NoMarkValid

NextEngine ==
    \/ engineStart
    \/ engineStop
    \/ engineCall
    \/ engineLock
    \/ DigestMessageTryLock
    \/ engineReturn
    \/ reorgBody
    \/ resequenceReceive
    \/ resequenceDone
    \/ resequencerReturn

\* every thread that can take a step of its own takes it; calls from outside, Start
\* and the cancellation of the context stay free
EngineFairness ==
    /\ \A t \in EngineCallers \ {"reorg"} : WF_vars(engineReturnOf(t))
    /\ WF_vars(reorgBody)
    /\ WF_vars(resequenceReceive)
    /\ WF_vars(resequenceDone)

SpecEngine == InitEngine /\ [][NextEngine]_vars /\ EngineFairness

\* the engine between Start and the cancellation of its context
NextEngineRunning ==
    \/ engineStart
    \/ engineCall
    \/ engineLock
    \/ DigestMessageTryLock
    \/ engineReturn
    \/ reorgBody
    \/ resequenceReceive
    \/ resequenceDone

SpecEngineRunning ==
    InitEngine /\ [][NextEngineRunning]_vars /\ EngineFairness /\ WF_vars(engineStart)

\* ---- retryables ----
\* one week, in units of a third of a week and a half
RetryableLifetimeSeconds == 2

RetryableIds == {1, 2}

\* InitializeRetryableState at timestamp 0: no retryable and an empty TimeoutQueue;
\* paid is the end of the lifetime paid for so far (0 while the id is unused)
RetryablesNew ==
    [pc |-> "retryables", now |-> 0,
     timeout |-> [id \in RetryableIds |-> 0],
     timeoutWindowsLeft |-> [id \in RetryableIds |-> 0],
     TimeoutQueue |-> <<>>,
     paid |-> [id \in RetryableIds |-> 0]]

retryablesFrame == <<batchCount, smCall, historyCache, search, engine, syncHelper,
                     reorgMutex, markValid, leafVars, runVars, moduleVars, pipelineVars>>

\* OpenRetryable(id, currentTimestamp): TRUE when a retryable is returned
OpenRetryable(rs, id, currentTimestamp) ==
    ~(rs.timeout[id] = 0 \/ rs.timeout[id] < currentTimestamp)

CalculateTimeout(rs, id) ==
    rs.timeout[id] + rs.timeoutWindowsLeft[id] * RetryableLifetimeSeconds

\* the next block's timestamp
retryablesTick ==
    /\ retryables.pc = "retryables"
    /\ retryables.now < MaxTime
    /\ retryables' = [retryables EXCEPT !.now = @ + 1]
    /\ UNCHANGED retryablesFrame

\* CreateRetryable(id, timeout, ...) with an id that was not used before
CreateRetryable ==
    /\ retryables.pc = "retryables"
    /\ \E id \in RetryableIds, timeout \in 1..MaxTime :
         /\ retryables.paid[id] = 0
         /\ timeout >= retryables.now
         /\ retryables' = [retryables EXCEPT !.timeout[id] = timeout,
                                              !.timeoutWindowsLeft[id] = 0,
                                              !.TimeoutQueue = Append(@, id),
                                              !.paid[id] = timeout]
    /\ UNCHANGED retryablesFrame

\* Keepalive(ticketId, currentTimestamp, limitBeforeAdd, timeToAdd) without a
\* storage or gas error
Keepalive ==
    /\ retryables.pc = "retryables"
    /\ \E ticketId \in RetryableIds, limitBeforeAdd \in 0..(MaxTime + RetryableLifetimeSeconds) :
         IF ~OpenRetryable(retryables, ticketId, retryables.now)
         THEN UNCHANGED retryables
         ELSE IF CalculateTimeout(retryables, ticketId) > limitBeforeAdd
         THEN UNCHANGED retryables
         ELSE retryables' = [retryables EXCEPT
                                !.TimeoutQueue = Append(@, ticketId),
                                !.timeoutWindowsLeft[ticketId] = @ + 1,
                                !.paid[ticketId] = @ + RetryableLifetimeSeconds]
    /\ UNCHANGED retryablesFrame

\* TryToReapOneRetryable(currentTimestamp, evm, scenario)
TryToReapOneRetryable ==
    /\ retryables.pc = "retryables"
    /\ LET rs == retryables
           currentTimestamp == rs.now
       IN  IF rs.TimeoutQueue = <<>> THEN UNCHANGED retryables
           ELSE LET id == Head(rs.TimeoutQueue)
                    timeout == rs.timeout[id]
                    windowsLeft == rs.timeoutWindowsLeft[id]
                IN  IF timeout = 0
                    THEN retryables' = [rs EXCEPT !.TimeoutQueue = Tail(@)]
                    ELSE IF timeout >= currentTimestamp
                    THEN UNCHANGED retryables
                    ELSE IF windowsLeft = 0
                    THEN retryables' = [rs EXCEPT !.TimeoutQueue = Tail(@),
                                                  !.timeout[id] = 0,
                                                  !.timeoutWindowsLeft[id] = 0]
                    ELSE retryables' = [rs EXCEPT
                                           !.TimeoutQueue = Tail(@),
                                           !.timeout[id] = timeout + RetryableLifetimeSeconds,
                                           !.timeoutWindowsLeft[id] = windowsLeft - 1]
    /\ UNCHANGED retryablesFrame

InitRetryables ==
    /\ PipelineIdle
    /\ ModuleRootsSet
    /\ NoExecutionRun
    /\ batchCount = MaxMsg + 1
    /\ smCall = NoCall
    /\ historyCache = EmptyCache
    /\ search = NoSearch
    /\ engine = NoEngine
    /\ retryables = RetryablesNew
    /\ syncHelper = NoSyncHelper
    /\ reorgMutex = NoMutex
    /\ markValid = NoMarkValid

NextRetryables ==
    \/ retryablesTick
    \/ CreateRetryable
    \/ Keepalive
    \/ TryToReapOneRetryable

SpecRetryables == InitRetryables /\ [][NextRetryables]_vars

\* ---- the sync helper ----
BlockNumbers == 0..MaxBlock

\* NewCheckpointCache(capacity)
NewCheckpointCache(capacity) ==
    [capacity |-> IF capacity <= 0 THEN 1 ELSE capacity, checkpoints |-> <<>>]

\* NewNitroSyncHelper(config, bc): lastConfirmed is nil (-1); stateCache is the set of
\* blocks whose state the blockchain's state cache can open
NewNitroSyncHelper(CheckpointPeriod, CheckpointCache, GenesisBlockNum, stateCache) ==
    [pc |-> "syncHelper", CheckpointPeriod |-> CheckpointPeriod,
     GenesisBlockNum |-> GenesisBlockNum, stateCache |-> stateCache,
     checkpointCache |-> NewCheckpointCache(CheckpointCache),
     lastConfirmed |-> 0 - 1, previous |-> 0 - 1]

syncHelperFrame == <<batchCount, smCall, historyCache, search, engine, retryables,
                     reorgMutex, markValid, leafVars, runVars, moduleVars, pipelineVars>>

\* CheckpointCache.Add(header)
Add(c, header) ==
    LET kept == IF Len(c.checkpoints) >= c.capacity THEN Tail(c.checkpoints)
                ELSE c.checkpoints
    IN  [c EXCEPT !.checkpoints = Append(kept, header)]

\* updateLastConfirmed(newConfirmed): whether lastConfirmed is updated
updateLastConfirmed(h, BlockNumber, hashMatches) ==
    /\ hashMatches
    /\ h.lastConfirmed # 0 - 1 => h.lastConfirmed < BlockNumber

\* whether scanNewConfirmedCheckpoints adds the header of a checkpoint block: the
\* test is err != nil on state.New(header.Root, h.bc.StateCache(), nil)
addsCheckpoint(h, number) == number \notin h.stateCache

\* the loop of scanNewConfirmedCheckpoints from nextCheckpoint on
RECURSIVE scanFrom(_, _, _, _)
scanFrom(h, c, nextCheckpoint, BlockNumber) ==
    IF nextCheckpoint > BlockNumber THEN c
    ELSE scanFrom(h,
                  IF addsCheckpoint(h, nextCheckpoint) THEN Add(c, nextCheckpoint) ELSE c,
                  nextCheckpoint + h.CheckpointPeriod, BlockNumber)

scanNewConfirmedCheckpoints(h, BlockNumber, previousConfirmed) ==
    LET period == h.CheckpointPeriod
        nextCheckpoint == IF previousConfirmed = 0 - 1
                          THEN (quo(h.GenesisBlockNum, period) + 1) * period
                          ELSE (quo(previousConfirmed, period) + 1) * period
    IN  scanFrom(h, h.checkpointCache, nextCheckpoint, BlockNumber)

\* the thread of Start handles one Confirmed of an existing block
newConfirmed ==
    /\ syncHelper.pc = "syncHelper"
    /\ \E BlockNumber \in BlockNumbers, hashMatches \in BOOLEAN :
         LET h == syncHelper
         IN  IF updateLastConfirmed(h, BlockNumber, hashMatches)
             THEN syncHelper' =
                      [h EXCEPT !.lastConfirmed = BlockNumber,
                                !.previous = h.lastConfirmed,
                                !.checkpointCache =
                                    scanNewConfirmedCheckpoints(h, BlockNumber, h.lastConfirmed)]
             ELSE UNCHANGED syncHelper
    /\ UNCHANGED syncHelperFrame

InitSyncHelper ==
    /\ PipelineIdle
    /\ ModuleRootsSet
    /\ NoExecutionRun
    /\ batchCount = MaxMsg + 1
    /\ smCall = NoCall
    /\ historyCache = EmptyCache
    /\ search = NoSearch
    /\ engine = NoEngine
    /\ retryables = NoRetryables
    /\ \E CheckpointPeriod \in 1..MaxPeriod, CheckpointCache \in 0..MaxCapacity,
          GenesisBlockNum \in 0..1, stateCache \in SUBSET BlockNumbers :
         syncHelper = NewNitroSyncHelper(CheckpointPeriod, CheckpointCache,
                                         GenesisBlockNum, stateCache)
    /\ reorgMutex = NoMutex
    /\ markValid = NoMarkValid

NextSyncHelper == newConfirmed

SpecSyncHelper == InitSyncHelper /\ [][NextSyncHelper]_vars

\* ---- properties ----
entryAt(p) == IF p \in Positions THEN validations[p] ELSE NoEntry

\* C1: in every reachable state the cursors satisfy
\* 0 <= validated <= recordSent <= created.
C1_CursorOrder ==
    /\ 0 <= validatedA
    /\ validatedA <= recordSentA
    /\ recordSentA <= createdA

\* a reorg epoch in which the three cursors are pairwise apart
C1_Witness ==
    /\ epochStart = 2
    /\ validatedA = 2 /\ recordSentA = 3 /\ createdA = 3

C3_AsClaimed ==
    /\ prepared - validatedA <= prerecordedBlocks
    /\ prepared <= createdA

\* C4: positions validated consecutively within one reorg epoch chain: the End of
\* entry p is the Start of entry p+1.
C4_Chained ==
    \A p \in Positions :
        (epochStart <= p /\ p + 1 < validatedA) =>
            validations[p].End = validations[p + 1].Start

C4_Witness ==
    /\ epochStart = 1
    /\ validatedA = 3
    /\ lastValidGS = validations[2].End

\* C5: validated advances from p to p+1 only if entry p has status ValidationSent,
\* one run per module root was launched for it, and every run is ready with a
\* result equal to the entry's End.
C5_AdvanceNeedsAllRuns ==
    [][(chainCaughtUp /\ validatedA' > validatedA) =>
          /\ validatedA' = validatedA + 1
          /\ entryAt(validatedA).Status = "ValidationSent"
          /\ Len(entryAt(validatedA).Runs) = NumRoots
          /\ \A i \in AllRoots : entryAt(validatedA).Runs[i] = "ok"]_vars

C5_Witness ==
    /\ validatedA = 2
    /\ validations[1].Status = "ValidationSent"
    /\ \A i \in AllRoots : validations[1].Runs[i] = "ok"
    /\ lastValidGS = validations[1].End

\* what a Reorg(n) step must leave behind
ReorgIsNoop(n) == n <= 1 \/ ~chainCaughtUp \/ createdA < n

ReorgPost(n) ==
    IF ReorgIsNoop(n)
    THEN UNCHANGED <<createdA, recordSentA, validatedA, prepared, lastValidGS, validations>>
    ELSE /\ createdA' = n
         /\ recordSentA' = Min(recordSentA, n)
         /\ validatedA' = Min(validatedA, n)
         /\ prepared' = Min(prepared, n)

taskRunning(p) == entryAt(p).Status = "SendingValidation"

\* C7 as stated: after a Reorg(N) that takes effect the validations mapping has no
\* key >= N and every validation task launched for a position >= N has had its
\* cancel handle invoked, also when the task had not yet registered the handle.
C7_AsClaimed ==
    [][\A n \in 0..(MaxMsg + 1) :
          ((ReorgCall(n) \/ (iterativeValidationProgress /\ reorgReq.pos = n))
              /\ ~ReorgIsNoop(n)) =>
             /\ \A p \in Positions : p >= n => validations'[p] = NoEntry
             /\ \A p \in Positions :
                   (p >= n /\ taskRunning(p)) => validations[p].Cancel # "nil"]_vars

\* C8 as stated: a failed run for position p = validated is fatal iff FailureIsFatal:
\* with it the error is published and the pipeline is not reorged to p, without it
\* nothing is published and the pipeline reorgs to p; validated stays at p.
C8_AsClaimed ==
    [][/\ (advanceValidations /\ reorgReq'.cause = "validationFailed") =>
            /\ validatedA' = validatedA
            /\ (failureIsFatal /\ ~stopped /\ fatalErr = <<>>)
                   => fatalErr' = <<"validation failed">>
            /\ ~failureIsFatal => fatalErr' = fatalErr
       /\ (iterativeValidationProgress /\ reorgReq.cause = "validationFailed") =>
            /\ validatedA' = validatedA
            /\ failureIsFatal => UNCHANGED <<createdA, recordSentA, validations>>
            /\ ~failureIsFatal =>
                   /\ fatalErr' = fatalErr
                   /\ createdA' = reorgReq.pos
                   /\ validations'[reorgReq.pos] = NoEntry]_vars

\* C9: a fatal error reaches the fatal channel only when the pipeline is not stopped,
\* FailureIsFatal is set and nothing was published before; every other error is
\* dropped, so the channel never holds more than the first error.
C9_FatalOnce ==
    [][fatalErr' # fatalErr =>
          /\ ~stopped
          /\ failureIsFatal
          /\ fatalErr = <<>>
          /\ Len(fatalErr') = 1]_vars

\* the failure at position 1 was published and the error of the reorg to 1 that
\* followed it was dropped
C9_Witness ==
    /\ fatalErr = <<"validation failed">>
    /\ valPc = "idle"
    /\ validatedA = 1
    /\ validations[1].Status = "ValidationSent"
    /\ scanRuns(validations[1].Runs, 1) = "failed"

\* C10 as stated: validated is not advanced on top of a last-validated record that
\* was not persisted.
C10_AsClaimed ==
    [][(chainCaughtUp /\ validatedA' > validatedA) =>
          db'.GlobalState = lastValidGS']_vars

\* C11: with store writes succeeding, every step that advances validated past
\* position p leaves the persisted record holding entry p's End and the module roots
\* of the runs that validated it, so the persisted global state equals lastValidGS.
C11_PersistOnValidation ==
    [][(chainCaughtUp /\ validatedA' > validatedA) =>
          /\ db'.GlobalState = entryAt(validatedA).End
          /\ db'.WasmRoots = wasmRootsOf(entryAt(validatedA).Runs)
          /\ db'.WasmRoots = AllRoots
          /\ db'.GlobalState = lastValidGS']_vars

\* the second validation of an epoch has rewritten the record
C11_Witness ==
    /\ validatedA = 3
    /\ epochStart = 1
    /\ db = [GlobalState |-> validations[2].End, WasmRoots |-> AllRoots]
    /\ db.GlobalState = lastValidGS

\* a step taken by Reorg(n), called from outside or by the validator loop
ReorgStep(n) == ReorgCall(n) \/ (iterativeValidationProgress /\ reorgReq.pos = n)

C13_ValidatedMonotone ==
    [][/\ validatedA' < validatedA =>
            \E n \in 0..(MaxMsg + 1) :
                ReorgStep(n) /\ ~ReorgIsNoop(n) /\ n < validatedA /\ validatedA' = n
       /\ (chainCaughtUp /\ validatedA' > validatedA) =>
            advanceValidations /\ validatedA' = validatedA + 1
       /\ advanceValidations => validatedA' >= validatedA]_vars

\* validated was lowered to 2 by a reorg and has advanced again since
C13_Witness ==
    /\ epochStart = 2
    /\ validatedA = 3
    /\ valPc = "loop"

\* the status changes of one entry, creation included
StatusSteps ==
    { <<"None", "Created">>, <<"Created", "RecordSent">>,
      <<"RecordSent", "RecordFailed">>, <<"RecordSent", "Prepared">>,
      <<"Prepared", "SendingValidation">>, <<"SendingValidation", "ValidationSent">> }

\* C14: the status of the entry at a position changes only along Created ->
\* RecordSent -> (RecordFailed | Prepared) -> SendingValidation -> ValidationSent;
\* an entry is deleted only by a Reorg to a count at or below its position; nothing
\* leaves RecordFailed but deletion; and a step other than Reorg changes the status
\* of one entry only.
C14_StatusOrder ==
    [][\A p \in Positions :
          validations'[p].Status # validations[p].Status =>
             \/ /\ validations'[p].Status = "None"
                /\ \E n \in 0..(MaxMsg + 1) : ReorgStep(n) /\ ~ReorgIsNoop(n) /\ n <= p
             \/ /\ <<validations[p].Status, validations'[p].Status>> \in StatusSteps
                /\ \A q \in Positions \ {p} :
                      validations'[q].Status = validations[q].Status]_vars

\* the entry re-created at 2 after a reorg has gone through every status
C14_Witness ==
    /\ epochStart = 2
    /\ validatedA = 2
    /\ validations[2].Status = "ValidationSent"
    /\ validations[2].Cancel = "set"

\* a pass of the validator loop that comes to a RecordFailed entry at valLoopPos
passAtRecordFailed ==
    /\ advanceValidations
    /\ ~stopped
    /\ valLoopPos < recordSentA
    /\ entryAt(valLoopPos).Status = "RecordFailed"

\* the validator loop carries out the reorg requested for a RecordFailed entry
reorgForRecordFailed ==
    /\ iterativeValidationProgress
    /\ reorgReq.cause = "recordFailed"

noKeyFrom(p) == \A q \in Positions : q >= p => validations'[q] = NoEntry

C16_AsClaimed ==
    \A p \in Positions :
        (entryAt(p).Status = "RecordFailed") ~> (entryAt(p).Status = "Created")

\* the message count a global state stands for
msgCountOf(gs) ==
    (IF gs.Batch > 0 THEN BatchMessageCount(gs.Batch - 1) ELSE 0) + gs.PosInBatch

\* the chain is caught up to gs: the tracker has its batch, the streamer has processed
\* its message count and the block hash at that count is that of gs
chainHolds(gs) ==
    /\ gs.Batch < BatchCount
    /\ msgCountOf(gs) <= processed
    /\ ResultAtCount(msgCountOf(gs)) = gs.BlockHash

\* C17: until the chain is caught up to lastValidGS no worker loop runs: no entry is
\* created, recorded or validated and the cursors keep their initial value; the step
\* that establishes caught-up is taken only when the chain holds lastValidGS, and it
\* sets created = recordSent = validated = the message count of lastValidGS and
\* nextCreateStartGS = lastValidGS.
C17_CaughtUpGate ==
    /\ [](~chainCaughtUp =>
            /\ createdA = 0 /\ recordSentA = 0 /\ validatedA = 0 /\ prepared = 0
            /\ \A p \in Positions : validations[p] = NoEntry
            /\ nextRecordPrepared = NoPromise
            /\ valPc = "idle")
    /\ [][(~chainCaughtUp /\ chainCaughtUp') =>
            /\ started
            /\ chainHolds(lastValidGS)
            /\ createdA' = msgCountOf(lastValidGS)
            /\ recordSentA' = msgCountOf(lastValidGS)
            /\ validatedA' = msgCountOf(lastValidGS)
            /\ nextCreateStartGS' = lastValidGS
            /\ lastValidGS' = lastValidGS]_vars

\* caught up to a global state in the middle of batch 1, given by AssumeValid
C17_Witness ==
    /\ chainCaughtUp
    /\ lastValidGS = GS(2, 1, 1)
    /\ createdA = 2 /\ recordSentA = 2 /\ validatedA = 2
    /\ nextCreateStartGS = lastValidGS
    /\ \A p \in Positions : validations[p] = NoEntry

\* (Batch, PosInBatch) of a is at or before that of b
posLeq(a, b) ==
    \/ a.Batch < b.Batch
    \/ a.Batch = b.Batch /\ a.PosInBatch <= b.PosInBatch

\* C19: an AssumeValid(gs) call after Start returns an error and assigns lastValidGS
\* its own value (after Start only the validator loop and Reorg write lastValidGS); a call
\* before Start returns no error, never moves (Batch, PosInBatch) of lastValidGS
\* backwards and ignores a gs behind lastValidGS.
C19_AssumeValid ==
    [][/\ started =>
            /\ AssumeValidErr # "nil"
            /\ \A gs \in AssumeInputs : assumedGS(gs) = lastValidGS
       /\ ~started =>
            \A gs \in AssumeInputs :
               AssumeValid(gs) =>
                  /\ AssumeValidErr = "nil"
                  /\ posLeq(lastValidGS, lastValidGS')
                  /\ lastValidGS' = IF posLeq(lastValidGS, gs) THEN gs ELSE lastValidGS
       /\ (started /\ lastValidGS' # lastValidGS) =>
            advanceValidations \/ \E n \in 0..(MaxMsg + 1) : ReorgStep(n)
       /\ (~started /\ ~started') => posLeq(lastValidGS, lastValidGS')]_vars

\* before Start, AssumeValid has moved lastValidGS to the middle of batch 2
C19_Witness ==
    /\ ~started
    /\ lastValidGS.Batch = 2
    /\ lastValidGS.PosInBatch = 1

\* C18: SetCurrentWasmModuleRoot(h) rejects the zero hash with an error; h equal to
\* the current root is a no-op; h equal to the pending root, or any h while no current
\* root is set, becomes the current root; any other h is rejected with an error when
\* the configured root is "current"; every rejected or no-op call leaves the current
\* and the pending root unchanged.
rootsUnchanged ==
    /\ currentWasmModuleRoot' = currentWasmModuleRoot
    /\ pendingWasmModuleRoot' = pendingWasmModuleRoot

C18_SetCurrentRoot ==
    [][\A h \in ModuleHashes : SetCurrentWasmModuleRoot(h) =>
          /\ h = ZeroHash => moduleErr' # "nil"
          /\ (h # ZeroHash /\ h = currentWasmModuleRoot) =>
                 moduleErr' = "nil" /\ rootsUnchanged
          /\ (h # ZeroHash /\ h # currentWasmModuleRoot
                /\ (h = pendingWasmModuleRoot \/ currentWasmModuleRoot = ZeroHash)) =>
                 /\ moduleErr' = "nil"
                 /\ currentWasmModuleRoot' = h
                 /\ pendingWasmModuleRoot' = pendingWasmModuleRoot
          /\ (h # ZeroHash /\ h # currentWasmModuleRoot /\ h # pendingWasmModuleRoot
                /\ currentWasmModuleRoot # ZeroHash
                /\ currentModuleRoot.kind = "current") => moduleErr' # "nil"
          /\ moduleErr' # "nil" => rootsUnchanged]_vars

\* an unexpected root was rejected while a current and a different pending root are set
C18_Witness ==
    /\ moduleErr = "unexpected wasmModuleRoot"
    /\ currentWasmModuleRoot # ZeroHash
    /\ pendingWasmModuleRoot # ZeroHash
    /\ pendingWasmModuleRoot # currentWasmModuleRoot
    /\ currentModuleRoot.kind = "current"

\* C20: for every machine, step size and N >= 1, the leaves collected from machine
\* index 0 with N desired leaves are exactly N hashes, the first of them
\* Keccak256("Machine finished:" || hash of the initial global state), whether or not
\* the machine halts within the range.
leafSeq(h) == [i \in 1..Length(h) |-> At(h, i - 1)]

C20_Leaves ==
    (leaves.err = "nil" /\ machineStartIndex = 0 /\ numDesiredLeaves >= 1) =>
        /\ Len(leafSeq(leaves)) = numDesiredLeaves
        /\ leafSeq(leaves)[1] = FinishedHash(GetGlobalState(0))

\* leaves were collected from index 0 over a range the machine does not halt in
C20_Witness ==
    /\ leaves.err = "nil"
    /\ machineStartIndex = 0
    /\ numDesiredLeaves >= 2
    /\ stepSize >= 1
    /\ machine.haltAt > stepSize * numDesiredLeaves
    /\ Len(leaves.sparseHashes) = numDesiredLeaves + 1

\* leaves were collected from index 0 of a machine that halts within the range
C20_WitnessHalts ==
    /\ leaves.err = "nil"
    /\ machineStartIndex = 0
    /\ numDesiredLeaves >= 2
    /\ machine.haltStatus = "Finished"
    /\ Len(leaves.sparseHashes) < numDesiredLeaves

\* C21: in the leaves of an execution run, element i >= 1 is the machine hash at
\* position startIdx + i*stepSize while the machine is running there; from the
\* position where the machine has finished on, every element is the "Machine
\* finished" hash of the terminal global state, the last hash emitted, repeated up to
\* the desired length.
leafPosition(i) == machineStartIndex + i * stepSize

C21_LeafPositions ==
    (leaves.err = "nil" /\ numDesiredLeaves >= 1) =>
        /\ \A i \in 1..(numDesiredLeaves - 1) :
              /\ IsRunning(leafPosition(i)) =>
                    leafSeq(leaves)[i + 1] = MachineHash(leafPosition(i))
              /\ (~IsRunning(leafPosition(i)) /\ machine.haltStatus = "Finished") =>
                    leafSeq(leaves)[i + 1] = FinishedHash(GetGlobalState(machine.haltAt))
        /\ (machine.haltStatus = "Finished"
              /\ Len(leaves.sparseHashes) < numDesiredLeaves) =>
              /\ leaves.sparseHashes[Len(leaves.sparseHashes)] =
                     FinishedHash(GetGlobalState(machine.haltAt))
              /\ \A j \in 2..(Len(leaves.sparseHashes) - 1) :
                     leaves.sparseHashes[j].kind = "machine"

\* a machine hash, then the finished hash, then padding
C21_Witness ==
    /\ leaves.err = "nil"
    /\ machine.haltStatus = "Finished"
    /\ machineStartIndex = 0
    /\ stepSize >= 1
    /\ machine.haltAt > stepSize
    /\ Len(leaves.sparseHashes) = 3
    /\ numDesiredLeaves = 4

\* C22: once the goroutine of Close has run, every machine cache the run created was
\* destroyed exactly once.
C22_AsClaimed ==
    closeOnce = "done" => \A c \in 1..Len(caches) : caches[c].destroyed = 1

\* what does hold: no cache is destroyed twice, and the cache field's is destroyed
C22_NeverTwice ==
    /\ \A c \in 1..Len(caches) : caches[c].destroyed <= 1
    /\ closeOnce = "done" => caches[cache].destroyed = 1

\* C23: ExecutionStateMsgCount fails with ErrChainCatchingUp, and with no other
\* error, for a state with PosInBatch = 0 whose batch lies beyond the batches of the
\* inbox tracker.
C23_AsClaimed ==
    (smCall.op = "ExecutionStateMsgCount"
       /\ smCall.state.PosInBatch = 0
       /\ smCall.state.Batch > batchCount) =>
        smCall.res.err = "ErrChainCatchingUp"

\* C24: ExecutionStateMsgCount accepts the genesis state (Batch = 0, PosInBatch = 0)
\* in every chain view.
C24_AsClaimed ==
    (smCall.op = "ExecutionStateMsgCount"
       /\ smCall.state.Batch = 0
       /\ smCall.state.PosInBatch = 0) =>
        smCall.res.err = "nil"

\* the message count of the last batch the tracker has
lastBatchMsgCount == BatchMessageCount(batchCount - 1)

\* C25: ExecutionStateAtMessageNumber(m) succeeds for every m from 1 to the message
\* count of the tracker's last batch; its state has the streamer's result at count m
\* and PosInBatch = 0, a message in the middle of batch b being reported as batch b+1.
C25_AsClaimed ==
    (smCall.op = "ExecutionStateAtMessageNumber"
       /\ smCall.messageNumber >= 1
       /\ smCall.messageNumber <= lastBatchMsgCount) =>
        /\ smCall.res.err = "nil"
        /\ smCall.res.gs.BlockHash = ResultAtCount(smCall.messageNumber)
        /\ smCall.res.gs.PosInBatch = 0

\* the end block of a L2MessageStatesUpTo call
toOf(c) == IF c.upTo.none THEN BlockChallengeLeafHeight ELSE c.upTo.height

\* C26: a L2MessageStatesUpTo(from, upTo, batch) that succeeds returns exactly
\* upTo - from + 1 leaves (upTo defaulting to the block-challenge leaf height), also
\* from 0 and when the batch limit ends the collection early; with upTo < from it
\* returns an error.
C26_LeafCount ==
    smCall.op = "L2MessageStatesUpTo" =>
        /\ smCall.res.err = "nil" =>
              Len(smCall.res.stateRoots) = toOf(smCall) - smCall.from + 1
        /\ toOf(smCall) < smCall.from => smCall.res.err # "nil"

\* the batch limit ended a collection from 0 early and the leaves were padded
C26_Witness ==
    /\ smCall.op = "L2MessageStatesUpTo"
    /\ smCall.res.err = "nil"
    /\ smCall.from = 0
    /\ smCall.upTo.none
    /\ smCall.batch = 2
    /\ Len(smCall.res.stateRoots) = BlockChallengeLeafHeight + 1
    /\ smCall.res.stateRoots[1] # smCall.res.stateRoots[BlockChallengeLeafHeight + 1]
    /\ smCall.res.stateRoots[BlockChallengeLeafHeight] =
           smCall.res.stateRoots[BlockChallengeLeafHeight + 1]

\* the global state of message index i in the chain
stateOfMessage(i) == buildGlobalState(ResultAtCount(i), GlobalStatePositionsAtCount(i))

firstOf(c) == IF c.from = 0 THEN 1 ELSE c.from

\* the messages from firstOf(c) on whose state is in or after batch c.batch
atLimit(c) ==
    {i \in firstOf(c)..toOf(c) : stateOfMessage(i).Batch >= c.batch}

\* the first message of the call that gets no leaf of its own
stopOf(c) ==
    IF atLimit(c) = {} THEN toOf(c) + 1
    ELSE CHOOSE i \in atLimit(c) : \A k \in atLimit(c) : i <= k

ospStep == smCall.bigStep * numOpcodesPerBigStep + smCall.smallStep

C28_AsClaimed ==
    (smCall.op = "OneStepProofData" /\ smCall.collabOk /\ IsRunning(ospStep))
        => /\ smCall.result.err = "nil"
           /\ smCall.result.BeforeHash = MachineHash(ospStep)
           /\ smCall.result.startLastLeaf = MachineHash(ospStep)
           /\ smCall.result.endLastLeaf = MachineHash(ospStep + 1)

\* C29: CollectMachineHashes answers from the history cache without a run when the key
\* is cached, and after a successful call that created a run the identical call is a
\* cache hit that returns the same hashes
collectAgain == CollectMachineHashes(smCall.key, smCall.entryOk)

C29_AsClaimed ==
    smCall.op = "CollectMachineHashes" /\ smCall.err = "nil"
        => /\ ~smCall.run => smCall.before[smCall.key].exists
           /\ smCall.run => /\ collectAgain.err = "nil"
                            /\ ~collectAgain.run
                            /\ collectAgain.roots = smCall.roots

\* C30: after Put(key, xs) on a key without a file, Get(key) returns xs exactly and
\* Get(key, upTo = k) returns the first k + 1 roots of xs when xs has more than k roots
\* and fails with "only read N state roots", N the length of xs, otherwise; a Put on a
\* key that has a file fails with ErrFileAlreadyExists and leaves the file as it was;
\* a Get that reads a whole file returns the roots the file was written from
firstRoots(xs, n) == SubSeq(xs, 1, n)

C30_RoundTrip ==
    /\ smCall.op = "Put" /\ smCall.err = "nil"
         => /\ ~smCall.before.exists
            /\ Get(historyCache, smCall.key, NoHeight)
                 = [err |-> "nil", roots |-> smCall.stateRoots,
                    read |-> Len(smCall.stateRoots)]
            /\ \A k \in 0..MaxRoots :
                 Get(historyCache, smCall.key, SomeHeight(k))
                   = IF Len(smCall.stateRoots) > k
                     THEN [err |-> "nil", roots |-> firstRoots(smCall.stateRoots, k + 1),
                           read |-> k + 1]
                     ELSE CacheErr("only read N state roots", Len(smCall.stateRoots))
    /\ smCall.op = "Put" /\ smCall.before.exists
         => /\ smCall.err = "ErrFileAlreadyExists"
            /\ historyCache[smCall.key] = smCall.before
    /\ smCall.op = "Get" /\ smCall.err = "nil" /\ smCall.upTo.none
         => writeStateRoots(smCall.roots) = historyCache[smCall.key].bytes

\* a Get up to height 1 returned two roots of a longer file
C30_Witness ==
    /\ smCall.op = "Get"
    /\ smCall.err = "nil"
    /\ smCall.upTo = SomeHeight(MaxRoots - 1)
    /\ Len(smCall.roots) = MaxRoots
    /\ smCall.roots[1] # smCall.roots[MaxRoots]
    /\ \E key \in Keys : key # smCall.key /\ historyCache[key].exists

\* C31: at the start of every iteration of the search for msgCount > 0 the count of
\* high is at least msgCount (an unknown batch counting as infinite), the count of
\* low - 1 is below msgCount and high >= low; "accumulator not found" at mid only lowers
\* high to mid, a smaller count only raises low to mid + 1, an equal count returns
\* mid + 1
countAtLeast(batch, n) ==
    trackerCount(search.counts, batch).err # "nil"
        \/ trackerCount(search.counts, batch).count >= n

C31_AsClaimed ==
    /\ search.pc = "loop"
         => /\ countAtLeast(search.high, search.msgCount)
            /\ search.low > 0
                 => trackerCount(search.counts, search.low - 1).count < search.msgCount
            /\ search.high >= search.low
    /\ search.pc = "loop" /\ search.answer = "not found"
         => search.high = search.mid /\ search.low = search.prevLow
    /\ search.pc = "loop" /\ search.answer = "smaller"
         => search.low = search.mid + 1 /\ search.high = search.prevHigh
    /\ search.pc = "done" /\ search.answer = "equal"
         => search.result = [err |-> "nil", batch |-> search.mid + 1]

\* C36: for 0 < msgCount <= the count of the last batch and non-decreasing counts the
\* search ends, and a batch b it returns satisfies
\* count(b - 1) <= msgCount < count(b), the count before batch 0 being 0 and the count
\* of a batch the tracker lacks counting as infinite
countBefore(b) == IF b = 0 THEN 0 ELSE trackerCount(search.counts, b - 1).count

C36_AsClaimed ==
    (/\ search.pc = "done"
     /\ search.msgCount > 0
     /\ search.msgCount <= search.counts[Len(search.counts)]
     /\ search.result.err = "nil")
        => /\ search.result.batch <= Len(search.counts)
           /\ countBefore(search.result.batch) <= search.msgCount
           /\ \/ trackerCount(search.counts, search.result.batch).err # "nil"
              \/ trackerCount(search.counts, search.result.batch).count > search.msgCount

\* C37: every leaf of a successful statesUpTo call is the "Machine finished" hash of
\* the global state of a message in the requested range, never the zero hash
C37_AsClaimed ==
    smCall.op = "L2MessageStatesUpTo" /\ smCall.res.err = "nil"
        => \A j \in 1..Len(smCall.res.stateRoots) :
              /\ smCall.res.stateRoots[j] # ZeroRoot
              /\ \E i \in firstOf(smCall)..toOf(smCall) :
                    smCall.res.stateRoots[j] = FinishedHash(stateOfMessage(i))

\* C32: a pass of the validator loop starts with room between 0 and 100, so with
\* room 0 when the spawner reports Room()/|roots| <= 0, also for a negative Room();
\* an entry is dispatched only while room remains and takes one unit of it; a
\* dispatched entry gets one run per module root
dispatched(p) ==
    /\ validations[p].Status = "Prepared"
    /\ validations'[p].Status = "SendingValidation"

C32_AsClaimed ==
    [][/\ (valPc = "idle" /\ valPc' = "loop") => (room' >= 0 /\ room' <= 100)
       /\ \A p \in Positions :
            /\ dispatched(p) => (room > 0 /\ room' = room - 1)
            /\ (validations[p].Status = "SendingValidation"
                  /\ validations'[p].Status = "ValidationSent")
                 => Len(validations'[p].Runs) = NumRoots]_vars

markValidOnce ==
    /\ Len(markValid.launched) = validatedA - epochStart
    /\ \A i \in 1..Len(markValid.launched) : markValid.launched[i] = epochStart + i - 1
    /\ Cardinality(markValid.calls) + Len(markValid.reached) = Len(markValid.launched)

markValidHash ==
    \A c \in markValid.calls \cup {markValid.reached[i] : i \in 1..Len(markValid.reached)} :
        c.resultHash = ResultAtCount(c.pos + 1)

markValidInOrder ==
    \A i, j \in 1..Len(markValid.reached) :
        i < j => markValid.reached[i].pos < markValid.reached[j].pos

C35_AsClaimed ==
    markValid.pc = "watch" => markValidOnce /\ markValidHash /\ markValidInOrder

\* C38: every acquisition of createBlocksMutex is eventually followed by its
\* release, also around Start and the stop of the engine, and reorg never blocks
\* for ever while holding it
C38_AsClaimed ==
    (engine.pc = "engine" /\ engine.locked) ~> ~engine.locked

\* C39: a retryable created with timeout T and kept alive k times is returned by
\* OpenRetryable at every time up to T + k * RetryableLifetimeSeconds, whatever
\* calls of TryToReapOneRetryable came before, and its storage is not cleared
\* before that time
retryableCleared(id) ==
    retryables.paid[id] > 0 /\ retryables.timeout[id] = 0

C39_AsClaimed ==
    retryables.pc = "retryables" =>
        \A id \in RetryableIds :
            (retryables.paid[id] > 0 /\ retryables.now <= retryables.paid[id]) =>
                /\ OpenRetryable(retryables, id, retryables.now)
                /\ ~retryableCleared(id)

\* C40: the checkpoint cache holds only headers of confirmed blocks whose number
\* is a multiple of CheckpointPeriod and whose state is available in the state
\* cache, it never holds more than its capacity, and the last confirmed block
\* number only increases
cachedCheckpoints ==
    {syncHelper.checkpointCache.checkpoints[i] :
        i \in 1..Len(syncHelper.checkpointCache.checkpoints)}

checkpointsConfirmed ==
    \A n \in cachedCheckpoints :
        n <= syncHelper.lastConfirmed /\ n % syncHelper.CheckpointPeriod = 0

checkpointsAvailable == \A n \in cachedCheckpoints : n \in syncHelper.stateCache

checkpointsWithinCapacity ==
    Len(syncHelper.checkpointCache.checkpoints) <= syncHelper.checkpointCache.capacity

lastConfirmedIncreases == syncHelper.previous < syncHelper.lastConfirmed

C40_AsClaimed ==
    syncHelper.pc = "syncHelper" =>
        /\ checkpointsConfirmed
        /\ checkpointsAvailable
        /\ checkpointsWithinCapacity
        /\ syncHelper.lastConfirmed # 0 - 1 => lastConfirmedIncreases

====
